---- MODULE Spec2Model ----
(***************************************************************************)
(* NHS Data Hub: the drug lookup and analysis layer of the Consolidated    *)
(* View page (src/pages/02_..._Consolidated_View.py), the figures of the   *)
(* Analytics Dashboard, the column analysis of the Upload page and the     *)
(* chat history of the assistant sidebar.                                  *)
(*                                                                         *)
(* Python strings that the code inspects character by character (queries,  *)
(* drug names, BNF codes) are sequences of one-character strings; labels   *)
(* that are only passed around (categories, column names) are strings.     *)
(* A call's outcome is a record [exc, val]: exc = "none" and the returned  *)
(* value, or the name of the exception that left the call.                 *)
(* numpy float64 results are exact rationals [k |-> "fin", n, d] or one of *)
(* the IEEE specials "inf", "-inf", "nan"; rounding is not modelled.       *)
(***************************************************************************)
EXTENDS Integers, Sequences, FiniteSets, TLC

VARIABLES
    pc,        \* which call has been made: "start", then the name of the call
    query,     \* the string handed to search_drugs / typed into the search box
    world,     \* what the remote source answers at this moment
    now,       \* datetime.now(), in seconds since 2000-01-01 00:00
    matches,   \* outcome of search_drugs(query)
    fetched,   \* outcome of the fetch under test
    analysis,  \* outcome of get_enhanced_drug_analysis
    session,   \* st.session_state of the page
    page_run,  \* how the last run of the page script ended
    cache,     \* the st.cache_data store: call key -> [at, value]
    returned,  \* the last two outcomes of a repeated call, with their times
    dashboard, \* what the Analytics Dashboard computed from its data
    upload,    \* what analyze_epact_data reported for the uploaded table
    sent,      \* history variable: the exchanges completed since the last Clear Chat
    payload    \* what the last Send handed to client.messages.create

vars == <<pc, query, world, now, matches, fetched, analysis, session, page_run,
          cache, returned, dashboard, upload, sent, payload>>

(***************************************************************************)
(* Bounds of the model.                                                    *)
(***************************************************************************)
\* longest trend series the remote source holds
MaxPeriods == 14
\* most regions in a regional breakdown
MaxRegions == 3
\* longest query enumerated exhaustively over QueryAlphabet
MaxQueryLen == 2

(***************************************************************************)
(* Python str operations on character sequences.                           *)
(***************************************************************************)
LowerLetters ==
    <<"a","b","c","d","e","f","g","h","i","j","k","l","m",
      "n","o","p","q","r","s","t","u","v","w","x","y","z">>

UpperLetters ==
    <<"A","B","C","D","E","F","G","H","I","J","K","L","M",
      "N","O","P","Q","R","S","T","U","V","W","X","Y","Z">>

Digits == {"0","1","2","3","4","5","6","7","8","9"}

Range(s) == {s[i] : i \in 1..Len(s)}

IsLowerChar(c) == c \in Range(LowerLetters)

IsUpperChar(c) == c \in Range(UpperLetters)

IsCased(c) == IsLowerChar(c) \/ IsUpperChar(c)

LetterIndex(letters, c) == CHOOSE i \in 1..Len(letters) : letters[i] = c

\* the upper-case and lower-case partner of every cased character
UpperOf ==
    [c \in Range(LowerLetters) |-> UpperLetters[LetterIndex(LowerLetters, c)]]

LowerOf ==
    [c \in Range(UpperLetters) |-> LowerLetters[LetterIndex(UpperLetters, c)]]

UpperChar(c) == IF c \in DOMAIN UpperOf THEN UpperOf[c] ELSE c

LowerChar(c) == IF c \in DOMAIN LowerOf THEN LowerOf[c] ELSE c

\* str.upper()
Upper(s) == [i \in 1..Len(s) |-> UpperChar(s[i])]

\* str.lower()
Lower(s) == [i \in 1..Len(s) |-> LowerChar(s[i])]

\* str.title(): a cased character is upper-cased when the character before it
\* is not cased, lower-cased otherwise
Title(s) ==
    [i \in 1..Len(s) |->
        IF i > 1 /\ IsCased(s[i-1]) THEN LowerChar(s[i]) ELSE UpperChar(s[i])]

\* str.isdigit(): non-empty and every character a digit
IsDigitStr(s) == Len(s) > 0 /\ \A i \in 1..Len(s) : s[i] \in Digits

\* the chain of .replace('A', '') ... .replace('Z', ''): drops the capitals
StripUpper(s) == SelectSeq(s, LAMBDA c : ~IsUpperChar(c))

\* a in b
IsSubstr(a, b) ==
    \E off \in 0..(Len(b) - Len(a)) : \A k \in 1..Len(a) : a[k] = b[off + k]

\* s[:n]
Take(s, n) == SubSeq(s, 1, IF Len(s) < n THEN Len(s) ELSE n)

(***************************************************************************)
(* The static reference table, in the dict's insertion order.  The literal *)
(* names 'prednisolone' twice: the key keeps its first position and takes  *)
(* the second value.                                                       *)
(***************************************************************************)
get_bnf_lookup ==
    <<
       [name |-> <<"r","a","m","i","p","r","i","l">>,
        code |-> <<"0","2","0","5","0","5","1","R","0">>, category |-> "ACE Inhibitor"],
       [name |-> <<"a","m","l","o","d","i","p","i","n","e">>,
        code |-> <<"0","2","0","6","0","2","0","A","0">>, category |-> "Calcium Channel Blocker"],
       [name |-> <<"a","t","o","r","v","a","s","t","a","t","i","n">>,
        code |-> <<"0","2","1","2","0","0","0","Y","0">>, category |-> "Statin"],
       [name |-> <<"s","i","m","v","a","s","t","a","t","i","n">>,
        code |-> <<"0","2","1","2","0","0","0","X","0">>, category |-> "Statin"],
       [name |-> <<"w","a","r","f","a","r","i","n">>,
        code |-> <<"0","2","0","8","0","2","0","W","0">>, category |-> "Anticoagulant"],
       [name |-> <<"c","l","o","p","i","d","o","g","r","e","l">>,
        code |-> <<"0","2","0","9","0","0","0","C","0">>, category |-> "Antiplatelet"],
       [name |-> <<"p","a","r","a","c","e","t","a","m","o","l">>,
        code |-> <<"0","4","0","7","0","1","0","Q","0">>, category |-> "Analgesic"],
       [name |-> <<"m","o","r","p","h","i","n","e">>,
        code |-> <<"0","4","0","7","0","2","0","Q","0">>, category |-> "Opioid Analgesic"],
       [name |-> <<"t","r","a","m","a","d","o","l">>,
        code |-> <<"0","4","0","7","0","2","0","T","0">>, category |-> "Opioid Analgesic"],
       [name |-> <<"s","e","r","t","r","a","l","i","n","e">>,
        code |-> <<"0","4","0","3","0","3","0","Q","0">>, category |-> "SSRI Antidepressant"],
       [name |-> <<"f","l","u","o","x","e","t","i","n","e">>,
        code |-> <<"0","4","0","3","0","3","0","F","0">>, category |-> "SSRI Antidepressant"],
       [name |-> <<"c","i","t","a","l","o","p","r","a","m">>,
        code |-> <<"0","4","0","3","0","3","0","C","0">>, category |-> "SSRI Antidepressant"],
       [name |-> <<"l","o","r","a","z","e","p","a","m">>,
        code |-> <<"0","4","0","1","0","2","0","L","0">>, category |-> "Benzodiazepine"],
       [name |-> <<"a","m","o","x","i","c","i","l","l","i","n">>,
        code |-> <<"0","5","0","1","0","1","3","B","0">>, category |-> "Penicillin Antibiotic"],
       [name |-> <<"f","l","u","c","l","o","x","a","c","i","l","l","i","n">>,
        code |-> <<"0","5","0","1","0","1","1","F","0">>, category |-> "Penicillin Antibiotic"],
       [name |-> <<"c","i","p","r","o","f","l","o","x","a","c","i","n">>,
        code |-> <<"0","5","0","1","0","4","0","C","0">>, category |-> "Quinolone Antibiotic"],
       [name |-> <<"m","e","t","r","o","n","i","d","a","z","o","l","e">>,
        code |-> <<"0","5","0","1","0","4","0","M","0">>, category |-> "Antibiotic"],
       [name |-> <<"m","e","t","f","o","r","m","i","n">>,
        code |-> <<"0","6","0","1","0","2","2","B","0">>, category |-> "Diabetes - Biguanide"],
       [name |-> <<"i","n","s","u","l","i","n">>,
        code |-> <<"0","6","0","1","0","1","0","H","0">>, category |-> "Diabetes - Insulin"],
       [name |-> <<"g","l","i","c","l","a","z","i","d","e">>,
        code |-> <<"0","6","0","1","0","2","1","G","0">>, category |-> "Diabetes - Sulfonylurea"],
       [name |-> <<"l","e","v","o","t","h","y","r","o","x","i","n","e">>,
        code |-> <<"0","6","0","2","0","1","0","L","0">>, category |-> "Thyroid Hormone"],
       [name |-> <<"p","r","e","d","n","i","s","o","l","o","n","e">>,
        code |-> <<"0","3","0","2","0","2","0","P","0">>, category |-> "Oral Corticosteroid"],
       [name |-> <<"o","m","e","p","r","a","z","o","l","e">>,
        code |-> <<"0","1","0","3","0","5","0","P","0">>, category |-> "Proton Pump Inhibitor"],
       [name |-> <<"l","a","n","s","o","p","r","a","z","o","l","e">>,
        code |-> <<"0","1","0","3","0","5","0","L","0">>, category |-> "Proton Pump Inhibitor"],
       [name |-> <<"r","a","n","i","t","i","d","i","n","e">>,
        code |-> <<"0","1","0","3","0","2","0","R","0">>, category |-> "H2 Receptor Antagonist"],
       [name |-> <<"l","o","p","e","r","a","m","i","d","e">>,
        code |-> <<"0","1","0","4","0","2","0","L","0">>, category |-> "Anti-diarrhoeal"],
       [name |-> <<"s","a","l","b","u","t","a","m","o","l">>,
        code |-> <<"0","3","0","1","0","1","1","R","0">>, category |-> "Beta2 Agonist"],
       [name |-> <<"b","e","c","l","o","m","e","t","a","s","o","n","e">>,
        code |-> <<"0","3","0","2","0","0","0","N","0">>, category |-> "Corticosteroid"],
       [name |-> <<"o","m","a","l","i","z","u","m","a","b">>,
        code |-> <<"0","3","0","2","0","2","0","O","0">>, category |-> "Monoclonal Antibody"],
       [name |-> <<"m","o","n","t","e","l","u","k","a","s","t">>,
        code |-> <<"0","3","0","3","0","2","0","M","0">>, category |-> "Leukotriene Receptor Antagonist"],
       [name |-> <<"a","d","a","l","i","m","u","m","a","b">>,
        code |-> <<"0","2","1","2","0","0","0","A","A">>, category |-> "TNF Alpha Inhibitor"],
       [name |-> <<"i","n","f","l","i","x","i","m","a","b">>,
        code |-> <<"0","2","1","2","0","0","0","A","C">>, category |-> "TNF Alpha Inhibitor"],
       [name |-> <<"e","t","a","n","e","r","c","e","p","t">>,
        code |-> <<"0","2","1","2","0","0","0","A","B">>, category |-> "TNF Alpha Inhibitor"],
       [name |-> <<"r","i","t","u","x","i","m","a","b">>,
        code |-> <<"0","8","0","1","0","2","0","T","0">>, category |-> "Monoclonal Antibody"],
       [name |-> <<"t","r","a","s","t","u","z","u","m","a","b">>,
        code |-> <<"0","8","0","1","0","2","0","Q","0">>, category |-> "Monoclonal Antibody"],
       [name |-> <<"b","e","v","a","c","i","z","u","m","a","b">>,
        code |-> <<"0","8","0","1","0","2","0","B","0">>, category |-> "Monoclonal Antibody"],
       [name |-> <<"f","o","l","i","c"," ","a","c","i","d">>,
        code |-> <<"0","9","0","6","0","1","1","F","0">>, category |-> "Vitamin B9"],
       [name |-> <<"i","r","o","n"," ","s","u","l","f","a","t","e">>,
        code |-> <<"0","9","0","1","0","1","1","I","0">>, category |-> "Iron Supplement"],
       [name |-> <<"v","i","t","a","m","i","n"," ","d">>,
        code |-> <<"0","9","0","6","0","6","0","V","0">>, category |-> "Vitamin D"],
       [name |-> <<"i","b","u","p","r","o","f","e","n">>,
        code |-> <<"1","0","0","1","0","1","0","I","0">>, category |-> "NSAID"],
       [name |-> <<"d","i","c","l","o","f","e","n","a","c">>,
        code |-> <<"1","0","0","1","0","1","0","D","0">>, category |-> "NSAID"],
       [name |-> <<"n","a","p","r","o","x","e","n">>,
        code |-> <<"1","0","0","1","0","1","0","N","0">>, category |-> "NSAID"],
       [name |-> <<"a","l","l","o","p","u","r","i","n","o","l">>,
        code |-> <<"1","0","0","3","0","2","0","A","0">>, category |-> "Uric Acid Reducer"],
       [name |-> <<"c","h","l","o","r","a","m","p","h","e","n","i","c","o","l">>,
        code |-> <<"1","1","0","3","0","1","0","C","0">>, category |-> "Antibiotic Eye Drops"],
       [name |-> <<"t","i","m","o","l","o","l">>,
        code |-> <<"1","1","0","6","0","2","0","T","0">>, category |-> "Glaucoma Treatment"],
       [name |-> <<"s","o","d","i","u","m"," ","c","h","l","o","r","i","d","e">>,
        code |-> <<"1","2","0","1","0","1","0","S","0">>, category |-> "Nasal Decongestant"],
       [name |-> <<"h","y","d","r","o","c","o","r","t","i","s","o","n","e">>,
        code |-> <<"1","3","0","3","0","2","0","H","0">>, category |-> "Topical Corticosteroid"],
       [name |-> <<"e","m","o","l","l","i","e","n","t">>,
        code |-> <<"1","3","0","1","0","2","0","E","0">>, category |-> "Skin Moisturizer"]
    >>

(***************************************************************************)
(* Outcomes of calls.                                                      *)
(***************************************************************************)
Ret(v) == [exc |-> "none", val |-> v]

Raise(e) == [exc |-> e, val |-> <<>>]

Raised(o) == o.exc # "none"

(***************************************************************************)
(* Calendar.  A period is a month index (0 = January 2000); pd.to_datetime *)
(* turns the first-of-month date into a timestamp, here in seconds since   *)
(* 2000-01-01 00:00.                                                       *)
(***************************************************************************)
SecondsPerDay == 24 * 60 * 60

CumDays == <<0, 31, 59, 90, 120, 151, 181, 212, 243, 273, 304, 334>>

IsLeap(y) == y % 4 = 0 /\ (y % 100 # 0 \/ y % 400 = 0)

DaysBeforeYear(y) ==
    365 * y + ((y + 3) \div 4) - ((y + 99) \div 100) + ((y + 399) \div 400)

DayOf(m) ==
    DaysBeforeYear(m \div 12) + CumDays[(m % 12) + 1]
        + (IF IsLeap(m \div 12) /\ m % 12 >= 2 THEN 1 ELSE 0)

\* pd.to_datetime of a first-of-month date
to_datetime(m) == SecondsPerDay * DayOf(m)

\* the month index a timestamp falls in
MonthIndexOf(ts) ==
    LET d == ts \div SecondsPerDay
        g == (d * 4800) \div 146097
    IN  CHOOSE m \in (g - 1)..(g + 1) : DayOf(m) <= d /\ d < DayOf(m + 1)

\* Series.dt.month
dt_month(ts) == (MonthIndexOf(ts) % 12) + 1

\* Series.dt.quarter
dt_quarter(ts) == ((MonthIndexOf(ts) % 12) \div 3) + 1

\* timedelta(days=n), in seconds
timedelta_days(n) == n * SecondsPerDay

(***************************************************************************)
(* The remote source.  world.net is how a request ends; a request that is  *)
(* answered carries the JSON body the source holds for the endpoint when   *)
(* the code is one it knows, and the empty list otherwise.                 *)
(*   body.shape = "records": a list of objects with the keys body.keys     *)
(*                "scalars": a list of scalars                             *)
(*                "object" : one object of scalar members                  *)
(*                "none"   : Python None                                   *)
(***************************************************************************)
RequestFailures == {"unreachable", "timeout", "http_error"}

NetOutcomes == {"ok", "bad_json", "bad_json_legacy"} \cup RequestFailures

NoneBody == [shape |-> "none", keys |-> {}, rows |-> <<>>, dates_parse |-> TRUE]

EmptyListBody ==
    [shape |-> "records", keys |-> {}, rows |-> <<>>, dates_parse |-> TRUE]

\* requests.get(url, params, timeout=10) followed by raise_for_status()
HttpGet(w, endpoint, code) ==
    IF w.net # "ok" THEN [net |-> w.net, body |-> NoneBody]
    ELSE IF code \in w.known
         THEN [net |-> "ok",
               body |-> IF endpoint = "spending" THEN w.spending ELSE w.by_org]
         ELSE [net |-> "ok", body |-> EmptyListBody]

\* a fetch without the try/except: a failed request leaves the call
get_openprescribing_data_Uncaught(w, endpoint, code) ==
    LET response == HttpGet(w, endpoint, code)
    IN  IF response.net # "ok" THEN Raise("RequestException")
        ELSE Ret(response.body)

\* ConnectionError, Timeout and HTTPError are RequestExceptions and are caught.
\* response.json() on a body that is not JSON raises requests' JSONDecodeError
\* (a RequestException, caught) from requests 2.27 on, and a plain ValueError
\* (not caught) before: "bad_json_legacy".
get_openprescribing_data(w, endpoint, code) ==
    LET response == HttpGet(w, endpoint, code)
    IN  IF response.net \in RequestFailures THEN Ret(NoneBody)
        ELSE IF response.net = "bad_json" THEN Ret(NoneBody)
        ELSE IF response.net = "bad_json_legacy" THEN Raise("ValueError")
        ELSE Ret(response.body)

\* Python truth value of the parsed JSON
Truthy(data) ==
    CASE data.shape = "none" -> FALSE
      [] data.shape = "object" -> data.keys # {}
      [] OTHER -> Len(data.rows) > 0

(***************************************************************************)
(* pandas DataFrames: the set of columns and the rows in order.            *)
(***************************************************************************)
EmptyDataFrame == [cols |-> {}, rows |-> <<>>]

\* pd.DataFrame(data): an object of scalars has no index and raises
DataFrame(data) ==
    IF data.shape = "object" THEN Raise("ValueError")
    ELSE Ret([cols |-> data.keys, rows |-> data.rows])

\* df.empty
empty(df) == df.cols = {} \/ Len(df.rows) = 0

RECURSIVE Insert(_, _)
Insert(sorted, row) ==
    IF sorted = <<>> THEN <<row>>
    ELSE IF row.date < Head(sorted).date THEN <<row>> \o sorted
    ELSE <<Head(sorted)>> \o Insert(Tail(sorted), row)

\* a fetch that leaves the records in the order received
sort_values_AsReceived(rows) == rows

RECURSIVE sort_values(_)
\* df.sort_values('date')
sort_values(rows) ==
    IF rows = <<>> THEN <<>>
    ELSE Insert(sort_values(SubSeq(rows, 1, Len(rows) - 1)), rows[Len(rows)])

\* df['date'] = pd.to_datetime(df['date'])
ParseDates(rows) ==
    [i \in 1..Len(rows) |-> [rows[i] EXCEPT !.date = to_datetime(@)]]

\* an int or a str handed over as months
IntArg(n) == [type |-> "int", n |-> n]

StrArg == [type |-> "str", n |-> 0]

\* df[df['date'] >= cutoff_date]
AfterCutoff(rows, cutoff_date) == SelectSeq(rows, LAMBDA r : r.date >= cutoff_date)

get_total_spending_trend(w, t, bnf_code, months) ==
    LET data == get_openprescribing_data(w, "spending", bnf_code)
    IN  IF Raised(data) THEN data
        ELSE IF ~Truthy(data.val) THEN Ret(EmptyDataFrame)
        ELSE LET df == DataFrame(data.val)
             IN  IF Raised(df) THEN df
                 ELSE IF ~empty(df.val) /\ "date" \in df.val.cols
                 THEN IF ~data.val.dates_parse THEN Raise("ValueError")
                      ELSE IF months.type # "int" THEN Raise("TypeError")
                      ELSE Ret([df.val EXCEPT !.rows =
                               AfterCutoff(sort_values(ParseDates(@)),
                                           t - timedelta_days(months.n * 30))])
                 ELSE df

get_drug_spending_by_icb(w, t, bnf_code, months) ==
    LET data == get_openprescribing_data(w, "spending_by_org", bnf_code)
    IN  IF Raised(data) THEN data
        ELSE IF ~Truthy(data.val) THEN Ret(EmptyDataFrame)
        ELSE LET df == DataFrame(data.val)
             IN  IF Raised(df) THEN df
                 ELSE IF ~empty(df.val) /\ "date" \in df.val.cols
                 THEN IF ~data.val.dates_parse THEN Raise("ValueError")
                      ELSE IF months.type # "int" THEN Raise("TypeError")
                      ELSE Ret([df.val EXCEPT !.rows =
                               AfterCutoff(ParseDates(@),
                                           t - timedelta_days(months.n * 30))])
                 ELSE df

(***************************************************************************)
(* Query Resolver: search_drugs.  A match is the tuple (name, code,        *)
(* category) as a record.                                                  *)
(***************************************************************************)
Match(name, code, category) == [name |-> name, code |-> code, category |-> category]

\* a resolver that takes nine characters, the length of the table's codes,
\* for the length of a direct code
IsDirectCode_NineCharacters(q) == Len(q) = 9 /\ IsDigitStr(StripUpper(q))

\* len(query) == 10 and, with the capitals removed, query.isdigit()
IsDirectCode(q) == Len(q) = 10 /\ IsDigitStr(StripUpper(q))

\* name.lower() of every name of the table
names_lower == [i \in 1..Len(get_bnf_lookup) |-> Lower(get_bnf_lookup[i].name)]

\* a resolver that matches a name only from its first character on
NameMatches_PrefixOnly(query_lower, name_lower) ==
    /\ Len(query_lower) <= Len(name_lower)
    /\ \A k \in 1..Len(query_lower) : name_lower[k] = query_lower[k]

\* query_lower in name.lower()
NameMatches(query_lower, name_lower) == IsSubstr(query_lower, name_lower)

RECURSIVE LocalMatchesFrom(_, _)
\* the loop over bnf_lookup.items() collecting local_matches, from entry i on
LocalMatchesFrom(query_lower, i) ==
    IF i > Len(get_bnf_lookup) THEN <<>>
    ELSE LET e == get_bnf_lookup[i]
         IN  (IF NameMatches(query_lower, names_lower[i])
              THEN <<Match(e.name, e.code, e.category)>> ELSE <<>>)
             \o LocalMatchesFrom(query_lower, i + 1)

\* query_lower = query.lower(), then the loop
local_matches(q) == LocalMatchesFrom(Lower(q), 1)

common_prefixes ==
    << <<"0","3","0","1">>, <<"0","3","0","2">>, <<"0","3","0","3">>,
       <<"0","6","0","1">>, <<"0","6","0","2">>, <<"0","8","0","1">>,
       <<"0","2","1","2">> >>

\* f"{prefix}000{query[:2].upper()}0"
potential_code(prefix, q) == prefix \o <<"0","0","0">> \o Upper(Take(q, 2)) \o <<"0">>

\* the calls search_drugs makes, in order, are kept with its outcome
Called(fn, arg) == [fn |-> fn, arg |-> arg]

With(o, calls) == [exc |-> o.exc, val |-> o.val, calls |-> calls]

Probe(code) == Called("get_total_spending_trend", code)

RECURSIVE PrefixProbe(_, _, _, _)
\* the loop over common_prefixes, from prefix i on; an exception of a probe
\* leaves the loop
PrefixProbe(w, t, q, i) ==
    IF i > Len(common_prefixes) THEN With(Ret(<<>>), <<>>)
    ELSE LET code == potential_code(common_prefixes[i], q)
             test_data == get_total_spending_trend(w, t, code, IntArg(1))
             rest == PrefixProbe(w, t, q, i + 1)
         IN  IF Raised(test_data) THEN With(test_data, <<Probe(code)>>)
             ELSE IF ~empty(test_data.val)
             THEN With(Ret(<<Match(Title(q), code, "Found via API search")>>),
                       <<Probe(code)>>)
             ELSE With(rest, <<Probe(code)>> \o rest.calls)

\* a resolver whose try block goes straight to the prefix probes
ApiSearch_PrefixProbesOnly(w, t, q) == PrefixProbe(w, t, q, 1)

\* the try block: the probe with the raw query, then the prefix probes
ApiSearch(w, t, q) ==
    LET test_data == get_total_spending_trend(w, t, q, IntArg(1))
        rest == PrefixProbe(w, t, q, 1)
    IN  IF Raised(test_data) THEN With(test_data, <<Probe(q)>>)
        ELSE IF ~empty(test_data.val)
        THEN With(Ret(<<Match(Title(q), Lower(q),
                              "Found in OpenPrescribing Database")>>),
                  <<Probe(q)>>)
        ELSE With(rest, <<Probe(q)>> \o rest.calls)

\* any(char in query_lower for char in name.lower() if len(char) > 2):
\* char is one character of the name, kept only if longer than two characters
\* a last-resort test without the length filter: any character of the name
\* that occurs in the query selects the entry
SuggestionHit_AnyChar(query_lower, name_lower) ==
    \E i \in 1..Len(name_lower) : IsSubstr(<<name_lower[i]>>, query_lower)

SuggestionHit(query_lower, name_lower) ==
    \E i \in 1..Len(name_lower) :
        /\ Len(<<name_lower[i]>>) > 2
        /\ IsSubstr(<<name_lower[i]>>, query_lower)

RECURSIVE SuggestionsFrom(_, _)
SuggestionsFrom(query_lower, i) ==
    IF i > Len(get_bnf_lookup) THEN <<>>
    ELSE LET e == get_bnf_lookup[i]
         IN  (IF SuggestionHit(query_lower, names_lower[i])
              THEN <<Match(e.name, e.code, "Similar to: " \o e.category)>>
              ELSE <<>>)
             \o SuggestionsFrom(query_lower, i + 1)

\* suggestions[:3]
suggestions(q) == Take(SuggestionsFrom(Lower(q), 1), 3)

search_drugs(w, t, q) ==
    LET direct == get_total_spending_trend(w, t, q, IntArg(1))
        first  == IF IsDirectCode(q) THEN <<Probe(q)>> ELSE <<>>
        lookup == first \o <<Called("get_bnf_lookup", <<>>)>>
        local  == local_matches(q)
        api    == ApiSearch(w, t, q)
    IN  IF IsDirectCode(q) /\ Raised(direct) THEN With(direct, first)
        ELSE IF IsDirectCode(q) /\ ~empty(direct.val)
        THEN With(Ret(<<Match(Title(q), Upper(q), "Direct BNF Code")>>), first)
        ELSE IF local # <<>> THEN With(Ret(local), lookup)
        ELSE IF ~Raised(api) /\ api.val # <<>> THEN With(api, lookup \o api.calls)
        ELSE With(Ret(suggestions(q)), lookup \o api.calls)

(***************************************************************************)
(* Inputs: clock values, upstream payloads and queries.                    *)
(***************************************************************************)
\* January 2026, the month of the clock values
ThisMonth == 26 * 12

\* 2026-01-15 12:00
Noon15 == to_datetime(ThisMonth) + timedelta_days(14) + (SecondsPerDay \div 2)

TrendKeys == {"date", "actual_cost", "items"}

OrgKeys == TrendKeys \cup {"row_name"}

RecordsBody(keys, rows) ==
    [shape |-> "records", keys |-> keys, rows |-> rows, dates_parse |-> TRUE]

\* a monthly series of n periods ending in month last: cost a before period k,
\* cost b from period k on
Series(n, last, a, b, k) ==
    [i \in 1..n |->
        [date |-> last - n + i,
         actual_cost |-> IF i >= k THEN b ELSE a,
         items |-> 10 * i,
         row_name |-> <<>>]]

\* the JSON bodies the source may hold for a code it knows: well-formed
\* records (the latest period inside or outside the last 30 days), records
\* lacking a key, dates that do not parse, and payloads of another shape
ProbeBodies ==
    {RecordsBody(TrendKeys, Series(2, ThisMonth, 100, 120, 2)),
     RecordsBody(TrendKeys, Series(1, ThisMonth - 2, 100, 120, 2))}
    \cup {RecordsBody(TrendKeys \ {"date"}, Series(1, ThisMonth - 2, 100, 120, 2)),
          RecordsBody({}, Series(1, ThisMonth, 100, 120, 2)),
          [RecordsBody(TrendKeys, Series(1, ThisMonth, 100, 120, 2))
              EXCEPT !.dates_parse = FALSE],
          [shape |-> "scalars", keys |-> {"0"},
           rows |-> Series(2, ThisMonth, 0, 0, 1), dates_parse |-> TRUE],
          [shape |-> "object", keys |-> {"detail"}, rows |-> <<>>,
           dates_parse |-> TRUE],
          [shape |-> "object", keys |-> {}, rows |-> <<>>, dates_parse |-> TRUE]}

QueryAlphabet == {"a", "M", "0", " "}

RECURSIVE StringsUpTo(_)
\* every string over QueryAlphabet of at most n characters
StringsUpTo(n) ==
    IF n = 0 THEN {<<>>}
    ELSE LET shorter == StringsUpTo(n - 1)
         IN  shorter \cup {Append(s, c) : s \in shorter, c \in QueryAlphabet}

TableNames == {get_bnf_lookup[i].name : i \in 1..Len(get_bnf_lookup)}

TableCodes == {get_bnf_lookup[i].code : i \in 1..Len(get_bnf_lookup)}

\* short strings; the table's names and codes in both cases; every table code
\* extended to ten characters; fragments and junk
Queries ==
    StringsUpTo(MaxQueryLen)
    \cup TableNames \cup {Upper(s) : s \in TableNames}
    \cup TableCodes \cup {Lower(s) : s \in TableCodes}
    \cup {Append(s, c) : s \in TableCodes, c \in {"0", "a"}}
    \cup { <<"m","a","b">>, <<"A","d","a","l","i","m","u","m","a","b">>, <<"P","R","E","D">>, <<"o","l","o","l">>,
           <<"x","y","z","z","y">>, <<"!","!">>, <<"a","c","i","d"," ">>,
           <<"1","2","3","4","5"," ","7","8","9","0">>,
           <<"0","0","0","0","0","0","0","0","0","0">>,
           <<"A","B","C","D","E","F","G","H","I","J">>,
           <<"1","2","3","4","5","6","7","8","9","!">> }

\* which of the candidate identifiers of a query the source knows
PrefixSets == {{}, {3, 5}, {7}}

KnownFor(q, knows_query, prefixes) ==
    (IF knows_query THEN {q} ELSE {})
    \cup {potential_code(common_prefixes[i], q) : i \in prefixes}

DownWorlds ==
    {[net |-> f, known |-> {}, spending |-> EmptyListBody, by_org |-> EmptyListBody] :
        f \in NetOutcomes \ {"ok"}}

ResolveWorlds(q) ==
    DownWorlds
    \cup {[net |-> "ok", known |-> KnownFor(q, kq, ps), spending |-> b,
           by_org |-> EmptyListBody] :
            kq \in BOOLEAN, ps \in PrefixSets, b \in ProbeBodies}

NotCalled == [exc |-> "not called", val |-> <<>>, calls |-> <<>>]

\* st.session_state before the first search: no key is set
NoSession == [key \in {} |-> 0]

NotRun == [exc |-> "not run", from |-> "", stored |-> FALSE]

\* the st.cache_data store with no entry
NoCache == [key \in {} |-> 0]

(***************************************************************************)
(* SpecResolve: search_drugs applied to every query and every answer of    *)
(* the remote source.                                                      *)
(***************************************************************************)
InitResolve ==
    /\ pc = "start"
    /\ query \in Queries
    /\ world \in ResolveWorlds(query)
    /\ now = Noon15
    /\ matches = NotCalled
    /\ fetched = NotCalled
    /\ analysis = NotCalled
    /\ session = NoSession
    /\ page_run = NotRun
    /\ cache = NoCache
    /\ returned = <<>>
    /\ dashboard = NotCalled
    /\ upload = NotCalled
    /\ sent = <<>>
    /\ payload = NotCalled

Resolve ==
    /\ pc = "start"
    /\ pc' = "search_drugs"
    /\ matches' = search_drugs(world, now, query)
    /\ UNCHANGED <<query, world, now, fetched, analysis, session, page_run,
                 cache, returned, dashboard, upload, sent, payload>>

NextResolve == Resolve

SpecResolve == InitResolve /\ [][NextResolve]_vars

(***************************************************************************)
(* Claims about search_drugs, checked under SpecResolve.                   *)
(***************************************************************************)
Resolved == pc = "search_drugs"

Table == get_bnf_lookup

\* c and d are the same character up to case
SameLetter(c, d) ==
    \/ c = d
    \/ c \in DOMAIN UpperOf /\ UpperOf[c] = d
    \/ c \in DOMAIN LowerOf /\ LowerOf[c] = d

\* q occurs in name, case-insensitively
OccursIn(q, name) ==
    \E off \in 0..(Len(name) - Len(q)) :
        \A k \in 1..Len(q) : SameLetter(q[k], name[off + k])

MatchingEntries(q) == {i \in 1..Len(Table) : OccursIn(q, Table[i].name)}

\* the table index of a returned entry
EntryIndex(m) ==
    CHOOSE i \in 1..Len(Table) :
        Table[i] = [name |-> m.name, code |-> m.code, category |-> m.category]

IsTableEntry(m) ==
    \E i \in 1..Len(Table) :
        Table[i] = [name |-> m.name, code |-> m.code, category |-> m.category]

\* ten characters, each a digit or a capital, at least one a digit
CodeForm(q) ==
    /\ Len(q) = 10
    /\ \A i \in 1..Len(q) : q[i] \in Digits \cup Range(UpperLetters)
    /\ \E i \in 1..Len(q) : q[i] \in Digits

\* ten characters, each a digit or a letter
TenAlphanumeric(q) ==
    /\ Len(q) = 10
    /\ \A i \in 1..Len(q) :
          q[i] \in Digits \cup Range(UpperLetters) \cup Range(LowerLetters)

\* the answer of the trend probe for the raw query
QueryProbe == get_total_spending_trend(world, now, query, IntArg(1))

ProbeHasData == ~Raised(QueryProbe) /\ ~empty(QueryProbe.val)

C6_Original_DirectCodeWhateverRemote ==
    (Resolved /\ TenAlphanumeric(query) /\ query \notin TableCodes) =>
        /\ ~Raised(matches)
        /\ Len(matches.val) = 1
        /\ matches.val[1].code = Upper(query)
        /\ matches.val[1].category = "Direct BNF Code"

\* C6 as amended: every query of exactly 10 characters, all digits or capitals
\* and at least one a digit, whose trend probe returns data resolves to the
\* single synthetic identity with category "Direct BNF Code" and the
\* uppercased query as code.
C6_DirectCodeWhenProbeHasData ==
    (Resolved /\ CodeForm(query) /\ ProbeHasData) =>
        /\ ~Raised(matches)
        /\ Len(matches.val) = 1
        /\ matches.val[1].code = Upper(query)
        /\ matches.val[1].category = "Direct BNF Code"

C6_Witness ==
    /\ Resolved /\ CodeForm(query) /\ ProbeHasData
    /\ query # <<"0","0","0","0","0","0","0","0","0","0">>
    /\ ~Raised(matches)
    /\ matches.val[1].category = "Direct BNF Code"

\* C7: a query that case-insensitively occurs in at least one name of the
\* table resolves to all the matching table entries, only those, in table order.
C7_AllAndOnlyTableMatchesInOrder ==
    LET matching == MatchingEntries(query)
    IN  (Resolved /\ matching # {}) =>
            /\ ~Raised(matches)
            /\ \A i \in matching :
                  \E j \in 1..Len(matches.val) : matches.val[j] = Table[i]
            /\ \A j \in 1..Len(matches.val) :
                  /\ IsTableEntry(matches.val[j])
                  /\ EntryIndex(matches.val[j]) \in matching
            /\ \A j \in 1..(Len(matches.val) - 1) :
                  EntryIndex(matches.val[j]) < EntryIndex(matches.val[j + 1])

C7_Witness ==
    /\ Resolved
    /\ query # Lower(query)
    /\ ~Raised(matches)
    /\ Len(matches.val) \in 2..(Len(Table) - 1)
    /\ \A j \in 1..Len(matches.val) : IsTableEntry(matches.val[j])

\* position of the first call of fn among the calls made, 0 if never called
FirstCall(calls, fn) ==
    IF \E i \in 1..Len(calls) : calls[i].fn = fn
    THEN CHOOSE i \in 1..Len(calls) :
            /\ calls[i].fn = fn
            /\ \A j \in 1..(i - 1) : calls[j].fn # fn
    ELSE 0

\* the remote source is first probed after the table lookup, with the raw
\* query as the search term
ProbedAfterLookup ==
    LET p == FirstCall(matches.calls, "get_total_spending_trend")
        l == FirstCall(matches.calls, "get_bnf_lookup")
    IN  /\ l > 0
        /\ p > l
        /\ matches.calls[p].arg = query

\* C8 as claimed: whenever no table name matches the query, the remote source
\* is probed with the raw query, a probe that returns data yields the single
\* identity with the found-in-remote-source category ("Found in
\* OpenPrescribing Database" in the source), and the table lookup comes
\* before the probe.
C8_Original_ProbeAfterLookup ==
    (Resolved /\ MatchingEntries(query) = {}) =>
        /\ ProbedAfterLookup
        /\ ProbeHasData =>
              /\ ~Raised(matches)
              /\ Len(matches.val) = 1
              /\ matches.val[1].category = "Found in OpenPrescribing Database"

\* C8 as amended: the same, for the queries that do not have the 10-character
\* code form (for those the remote source is probed before the table lookup
\* and a probe with data yields the "Direct BNF Code" identity).
C8_ProbeAfterLookupUnlessCodeForm ==
    (Resolved /\ MatchingEntries(query) = {} /\ ~CodeForm(query)) =>
        /\ ProbedAfterLookup
        /\ ProbeHasData =>
              /\ ~Raised(matches)
              /\ Len(matches.val) = 1
              /\ matches.val[1].category = "Found in OpenPrescribing Database"

C8_Witness ==
    /\ Resolved /\ MatchingEntries(query) = {} /\ ~CodeForm(query)
    /\ ProbeHasData
    /\ ~Raised(matches)
    /\ matches.val[1].category = "Found in OpenPrescribing Database"
    /\ matches.val[1].code = Lower(query)
    /\ query # Lower(query)

\* C9: search_drugs raises for no query and no answer of the remote source
\* (the answers a current requests library turns into a RequestException, and
\* every JSON body).
C9_ResolveNeverRaises ==
    (Resolved /\ world.net # "bad_json_legacy") => ~Raised(matches)

(***************************************************************************)
(* Arithmetic of the derived metrics.  A finite value is a rational <<n, d>>*)
(* in lowest terms with d > 0; a float64 is finite or one of the specials   *)
(* that numpy's division by zero produces (with a warning, not an error).   *)
(***************************************************************************)
Abs(n) == IF n < 0 THEN -n ELSE n

RECURSIVE GCD(_, _)
GCD(a, b) == IF b = 0 THEN a ELSE GCD(b, a % b)

Rat(n, d) ==
    LET g == GCD(Abs(n), Abs(d))
        s == IF d < 0 THEN -1 ELSE 1
    IN  <<(s * n) \div g, (s * d) \div g>>

Whole(n) == <<n, 1>>

RAdd(x, y) == Rat(x[1] * y[2] + y[1] * x[2], x[2] * y[2])

RSub(x, y) == Rat(x[1] * y[2] - y[1] * x[2], x[2] * y[2])

RMul(x, y) == Rat(x[1] * y[1], x[2] * y[2])

RLess(x, y) == x[1] * y[2] < y[1] * x[2]

Fin(x) == [k |-> "fin", v |-> x]

Inf == [k |-> "inf", v |-> Whole(0)]

NegInf == [k |-> "-inf", v |-> Whole(0)]

NaN == [k |-> "nan", v |-> Whole(0)]

\* x / y on float64
FloatDiv(x, y) ==
    IF y[1] = 0
    THEN IF x[1] > 0 THEN Inf ELSE IF x[1] < 0 THEN NegInf ELSE NaN
    ELSE Fin(Rat(x[1] * y[2], x[2] * y[1]))

\* f * 100
Times100(f) == IF f.k = "fin" THEN Fin(RMul(f.v, Whole(100))) ELSE f

\* the change taken relative to the later value: ((x - y) / x) * 100
PctOf_OfLater(x, y) == Times100(FloatDiv(RSub(x, y), x))

\* ((x - y) / y) * 100
PctOf(x, y) == Times100(FloatDiv(RSub(x, y), y))

(***************************************************************************)
(* Column aggregates.                                                      *)
(***************************************************************************)
RECURSIVE SumOf(_, _)
\* the sum of column col over rows
SumOf(rows, col) ==
    IF rows = <<>> THEN 0 ELSE rows[1][col] + SumOf(Tail(rows), col)

\* Series.mean()
MeanOf(rows, col) == Rat(SumOf(rows, col), Len(rows))

\* df.head(n) and df.tail(n)
head(rows, n) == SubSeq(rows, 1, IF Len(rows) < n THEN Len(rows) ELSE n)

tail(rows, n) ==
    SubSeq(rows, IF Len(rows) < n THEN 1 ELSE Len(rows) - n + 1, Len(rows))

\* groupby(key)[col].mean(): the mean of col for every value of the key,
\* where keys[i] is the key of row i
GroupMeans(rows, keys, col) ==
    [g \in Range(keys) |->
        MeanOf([j \in 1..Cardinality({i \in 1..Len(rows) : keys[i] = g}) |->
                    rows[CHOOSE i \in 1..Len(rows) :
                            /\ keys[i] = g
                            /\ Cardinality({h \in 1..i : keys[h] = g}) = j]],
               col)]

\* trend_df_copy['month'], trend_df_copy['quarter']
MonthColumn(rows) == [i \in 1..Len(rows) |-> dt_month(rows[i].date)]

QuarterColumn(rows) == [i \in 1..Len(rows) |-> dt_quarter(rows[i].date)]

RMax(values) == CHOOSE x \in values : \A y \in values : ~RLess(x, y)

RMin(values) == CHOOSE x \in values : \A y \in values : ~RLess(y, x)

RECURSIVE RSum(_, _)
\* the sum of f over the keys
RSum(f, keys) ==
    IF keys = {} THEN Whole(0)
    ELSE LET g == CHOOSE g \in keys : TRUE
         IN  RAdd(f[g], RSum(f, keys \ {g}))

\* Series.mean() of a grouped result
MeanOfGroups(f) ==
    LET total == RSum(f, DOMAIN f)
    IN  Rat(total[1], total[2] * Cardinality(DOMAIN f))

Values(f) == {f[g] : g \in DOMAIN f}

\* Series.idxmax() and idxmin() over integer labels: the first label, in
\* label order, that carries the extreme value
idxmax(f) ==
    CHOOSE g \in DOMAIN f :
        /\ f[g] = RMax(Values(f))
        /\ \A h \in DOMAIN f : f[h] = RMax(Values(f)) => g <= h

idxmin(f) ==
    CHOOSE g \in DOMAIN f :
        /\ f[g] = RMin(Values(f))
        /\ \A h \in DOMAIN f : f[h] = RMin(Values(f)) => g <= h

EmptyDict == [key \in {} |-> 0]

(***************************************************************************)
(* Metric Derivation: get_enhanced_drug_analysis, block by block.          *)
(***************************************************************************)
\* lines 186-191
TrendBase(trend_df) ==
    LET rows == trend_df.rows
    IN  [months_of_data |-> Len(rows),
         date_range |-> <<MonthIndexOf(rows[1].date),
                          MonthIndexOf(rows[Len(rows)].date)>>,
         latest_cost |-> IF "actual_cost" \in trend_df.cols
                         THEN rows[Len(rows)].actual_cost ELSE 0,
         latest_items |-> IF "items" \in trend_df.cols
                          THEN rows[Len(rows)].items ELSE 0]

\* line 200: the guard of the year-over-year block
YoYGuard(n) == n >= 12

(***************************************************************************)
(* Python floats are IEEE 754 binary64: 53 significant bits, results       *)
(* rounded to nearest, ties to even.  A positive float is m * 2^e with m   *)
(* of exactly 53 bits; m is kept as limbs of 13 bits, least significant    *)
(* first.  Only what lines 205-207 need: the quotient of two integers, a   *)
(* product and a comparison, all of values that are not negative.          *)
(***************************************************************************)
LimbBits == 13

Limb == 2^LimbBits

Precision == 53

\* the limbs of p * 2^ScaleBits hold more than 53 bits of p / q
ScaleBits == 5 * LimbBits

RECURSIVE Carry(_, _)
\* column sums to limbs
Carry(cols, c) ==
    IF cols = <<>> THEN IF c = 0 THEN <<>> ELSE <<c % Limb>> \o Carry(<<>>, c \div Limb)
    ELSE <<(cols[1] + c) % Limb>> \o Carry(Tail(cols), (cols[1] + c) \div Limb)

LimbAt(a, j) == IF j \in 1..Len(a) THEN a[j] ELSE 0

RECURSIVE ColumnSum(_, _, _, _)
\* the sum of a[i] * b[k + 1 - i] over i..Len(a)
ColumnSum(a, b, k, i) ==
    IF i > Len(a) THEN 0
    ELSE a[i] * LimbAt(b, k + 1 - i) + ColumnSum(a, b, k, i + 1)

BigMul(a, b) ==
    Carry([k \in 1..(Len(a) + Len(b) - 1) |-> ColumnSum(a, b, k, 1)], 0)

\* one more limb of a quotient, above those found for the limbs below
WithLimb(rest, limb) == [quot |-> Append(rest.quot, limb), rem |-> rest.rem]

RECURSIVE DivFrom(_, _, _, _)
\* limbs 1..i of a, with remainder r carried in from above, divided by q
DivFrom(a, q, i, r) ==
    IF i = 0 THEN [quot |-> <<>>, rem |-> r]
    ELSE WithLimb(DivFrom(a, q, i - 1, (r * Limb + a[i]) % q), (r * Limb + a[i]) \div q)

RECURSIVE SmallBits(_)
SmallBits(n) == IF n = 0 THEN 0 ELSE 1 + SmallBits(n \div 2)

RECURSIVE TopLimb(_)
TopLimb(a) ==
    IF a = <<>> THEN 0
    ELSE IF a[Len(a)] # 0 THEN Len(a)
    ELSE TopLimb(SubSeq(a, 1, Len(a) - 1))

BitLenAt(a, top) == IF top = 0 THEN 0 ELSE LimbBits * (top - 1) + SmallBits(a[top])

BitLen(a) == BitLenAt(a, TopLimb(a))

\* bit i of a, counted from 0
Bit(a, i) == (LimbAt(a, i \div LimbBits + 1) \div 2^(i % LimbBits)) % 2

\* a // 2^s
ShiftRight(a, s) ==
    [j \in 1..Len(a) |->
        (LimbAt(a, j + (s \div LimbBits)) \div 2^(s % LimbBits))
        + (LimbAt(a, j + (s \div LimbBits) + 1) % 2^(s % LimbBits))
              * 2^(LimbBits - (s % LimbBits))]

\* a mantissa that rounding carried to 54 bits loses its last bit, a zero
Renormalised(next, bits, s) ==
    IF bits > Precision
    THEN [m |-> SubSeq(ShiftRight(next, 1), 1, 5), dropped |-> s + 1]
    ELSE [m |-> SubSeq(next, 1, 5), dropped |-> s]

RoundedUp(next, s) == Renormalised(next, BitLen(next), s)

\* round to nearest, ties to even: kept is a without its last s bits
RoundKept(a, s, kept, inexact) ==
    IF /\ s > 0
       /\ Bit(a, s - 1) = 1
       /\ (inexact \/ Bit(kept, 0) = 1 \/ \E i \in 0..(s - 2) : Bit(a, i) = 1)
    THEN RoundedUp(Carry([kept EXCEPT ![1] = @ + 1], 0), s)
    ELSE [m |-> SubSeq(kept, 1, 5), dropped |-> s]

RoundAt(a, s, inexact) == RoundKept(a, s, ShiftRight(a, s), inexact)

\* a of 53 bits or more rounded to 53: the bits kept and how many were
\* dropped; inexact says that a itself is a truncation
RoundToPrecision(a, inexact) == RoundAt(a, BitLen(a) - Precision, inexact)

FloatZero == [m |-> <<0, 0, 0, 0, 0>>, e |-> 0]

\* the float of a rounded mantissa that stands e binary places up
Scaled(rounded, e) == [m |-> rounded.m, e |-> rounded.dropped + e]

RoundedQuotient(d) == Scaled(RoundToPrecision(d.quot, d.rem # 0), 0 - ScaleBits)

Divided(scaled, q) == RoundedQuotient(DivFrom(scaled, q, Len(scaled), 0))

\* float(p) / float(q) for integers p >= 0 and q > 0 that floats hold exactly
FloatOfRatio(p, q) ==
    IF p = 0 THEN FloatZero
    ELSE Divided(Carry(<<0, 0, 0, 0, 0, p>>, 0), q)

\* x * y
FloatProduct(x, y) ==
    IF x = FloatZero \/ y = FloatZero THEN FloatZero
    ELSE Scaled(RoundToPrecision(BigMul(x.m, y.m), FALSE), x.e + y.e)

RECURSIVE BigLess(_, _, _)
\* a < b for limbs 1..i
BigLess(a, b, i) ==
    IF i = 0 THEN FALSE
    ELSE IF a[i] # b[i] THEN a[i] < b[i]
    ELSE BigLess(a, b, i - 1)

\* x < y
FloatLt(x, y) ==
    IF y = FloatZero THEN FALSE
    ELSE IF x = FloatZero THEN TRUE
    ELSE x.e < y.e \/ (x.e = y.e /\ BigLess(x.m, y.m, 5))

\* Series.mean() of whole costs: the sum, exact, divided by the count
mean(rows, col) == FloatOfRatio(SumOf(rows, col), Len(rows))

\* the literals 1.1 and 0.9
OnePointOne == FloatOfRatio(11, 10)

ZeroPointNine == FloatOfRatio(9, 10)

\* line 207
trend_direction(recent_avg, older_avg) ==
    IF FloatLt(FloatProduct(older_avg, OnePointOne), recent_avg) THEN "increasing"
    ELSE IF FloatLt(recent_avg, FloatProduct(older_avg, ZeroPointNine)) THEN "decreasing"
    ELSE "stable"

\* lines 205-209
overall_trend(rows) ==
    trend_direction(mean(tail(rows, 6), "actual_cost"), mean(head(rows, 6), "actual_cost"))

\* lines 194-209: the metrics added to trend_data, or the exception raised
TrendMetrics(trend_df) ==
    LET rows == trend_df.rows
        n == Len(rows)
        recent_cost == Whole(rows[n].actual_cost)
        previous_cost == Whole(rows[n - 1].actual_cost)
    IN  IF ~(n >= 2 /\ "actual_cost" \in trend_df.cols) THEN Ret(EmptyDict)
        ELSE IF YoYGuard(n) /\ n < 13 THEN Raise("IndexError")
        ELSE Ret(("mom_change_pct" :> PctOf(recent_cost, previous_cost))
                 @@ (IF YoYGuard(n)
                     THEN "yoy_change_pct" :>
                            PctOf(recent_cost, Whole(rows[n - 12].actual_cost))
                     ELSE EmptyDict)
                 @@ (IF n >= 6
                     THEN "overall_trend" :> overall_trend(rows)
                     ELSE EmptyDict))

\* lines 185-211: trend_data, absent for an empty frame
TrendBlock(trend_df) ==
    IF empty(trend_df) THEN Ret(EmptyDict)
    ELSE IF "date" \notin trend_df.cols THEN Raise("KeyError")
    ELSE LET metrics == TrendMetrics(trend_df)
         IN  IF Raised(metrics) THEN metrics
             ELSE Ret("trend_data" :> (TrendBase(trend_df) @@ metrics.val))

\* the characters in code-point order
Ascii ==
    <<" ", "!", "0", "1", "2", "3", "4", "5", "6", "7", "8", "9">>
        \o UpperLetters \o LowerLetters

ord == [c \in Range(Ascii) |-> CHOOSE i \in 1..Len(Ascii) : Ascii[i] = c]

RECURSIVE StrLess(_, _)
\* a < b on str
StrLess(a, b) ==
    IF b = <<>> THEN FALSE
    ELSE IF a = <<>> THEN TRUE
    ELSE IF a[1] # b[1] THEN ord[a[1]] < ord[b[1]]
    ELSE StrLess(Tail(a), Tail(b))

RECURSIVE SortedNames(_)
\* the group keys in groupby's sorted order
SortedNames(names) ==
    IF names = {} THEN <<>>
    ELSE LET least == CHOOSE a \in names : \A b \in names \ {a} : StrLess(a, b)
         IN  <<least>> \o SortedNames(names \ {least})

\* icb_df.groupby('row_name').agg({'actual_cost': 'sum', 'items': 'sum'})
\*       .reset_index()
icb_summary(icb_df) ==
    LET names == SortedNames({icb_df.rows[i].row_name : i \in 1..Len(icb_df.rows)})
    IN  [j \in 1..Len(names) |->
            LET own == SelectSeq(icb_df.rows, LAMBDA r : r.row_name = names[j])
            IN  [row_name |-> names[j],
                 actual_cost |-> SumOf(own, "actual_cost"),
                 items |-> SumOf(own, "items")]]

\* position of the first row with the largest / smallest actual_cost
ArgMax(summary) ==
    CHOOSE j \in 1..Len(summary) :
        /\ \A k \in 1..Len(summary) : summary[k].actual_cost <= summary[j].actual_cost
        /\ \A k \in 1..(j - 1) : summary[k].actual_cost < summary[j].actual_cost

ArgMin(summary) ==
    CHOOSE j \in 1..Len(summary) :
        /\ \A k \in 1..Len(summary) : summary[k].actual_cost >= summary[j].actual_cost
        /\ \A k \in 1..(j - 1) : summary[k].actual_cost > summary[j].actual_cost

\* Series.median(): the middle value, or the mean of the two middle values
median(summary) ==
    LET n == Len(summary)
        costs == {summary[j].actual_cost : j \in 1..n}
        \* the k-th smallest cost
        Kth(k) == CHOOSE c \in costs :
                    /\ Cardinality({j \in 1..n : summary[j].actual_cost < c}) < k
                    /\ Cardinality({j \in 1..n : summary[j].actual_cost <= c}) >= k
    IN  IF n % 2 = 1 THEN Whole(Kth((n + 1) \div 2))
        ELSE Rat(Kth(n \div 2) + Kth((n \div 2) + 1), 2)

Derby == <<"D", "e", "r", "b", "y">>

\* row_name.str.contains('Derby', case=False)
ContainsDerby(row_name) == IsSubstr(Lower(Derby), Lower(row_name))

\* lines 236-244.  derby_cost and national_avg are Python floats (float(...)),
\* whose division by zero raises; the numpy scalars of the other percentages
\* divide to inf or nan
derby_vs_national(summary) ==
    LET derby_icbs == SelectSeq(summary, LAMBDA r : ContainsDerby(r.row_name))
        derby_cost == derby_icbs[1].actual_cost
        national_avg == MeanOf(summary, "actual_cost")
        below == Cardinality({j \in 1..Len(summary) :
                                summary[j].actual_cost <= derby_cost})
    IN  IF derby_icbs = <<>> THEN Ret(EmptyDict)
        ELSE IF national_avg[1] = 0 THEN Raise("ZeroDivisionError")
        ELSE Ret("derby_vs_national" :>
                    [derby_cost |-> derby_cost,
                     vs_average_pct |-> PctOf(Whole(derby_cost), national_avg),
                     percentile_rank |-> RMul(Rat(below, Len(summary)), Whole(100))])

\* lines 223-233
regional_data(summary) ==
    [total_icbs |-> Len(summary),
     highest_spending_icb |-> summary[ArgMax(summary)].row_name,
     highest_spending_amount |-> summary[ArgMax(summary)].actual_cost,
     lowest_spending_icb |-> summary[ArgMin(summary)].row_name,
     lowest_spending_amount |-> summary[ArgMin(summary)].actual_cost,
     national_total_cost |-> SumOf(summary, "actual_cost"),
     national_total_items |-> SumOf(summary, "items"),
     average_icb_cost |-> MeanOf(summary, "actual_cost"),
     median_icb_cost |-> median(summary)]

\* lines 215-246: regional_data, absent without region-bearing rows
RegionalBlock(icb_df) ==
    IF empty(icb_df) \/ "row_name" \notin icb_df.cols THEN Ret(EmptyDict)
    ELSE IF ~({"actual_cost", "items"} \subseteq icb_df.cols) THEN Raise("KeyError")
    ELSE LET summary == icb_summary(icb_df)
             derby == derby_vs_national(summary)
         IN  IF Raised(derby) THEN derby
             ELSE Ret("regional_data" :> (regional_data(summary) @@ derby.val))

\* lines 249-263: seasonal_patterns
SeasonalBlock(trend_df) ==
    IF empty(trend_df) \/ Len(trend_df.rows) < 12 \/ "date" \notin trend_df.cols
       \/ "actual_cost" \notin trend_df.cols
    THEN EmptyDict
    ELSE LET monthly_avg ==
                 GroupMeans(trend_df.rows, MonthColumn(trend_df.rows), "actual_cost")
             quarterly_avg ==
                 GroupMeans(trend_df.rows, QuarterColumn(trend_df.rows), "actual_cost")
         IN  "seasonal_patterns" :>
                [highest_spending_month |-> idxmax(monthly_avg),
                 lowest_spending_month |-> idxmin(monthly_avg),
                 highest_spending_quarter |-> idxmax(quarterly_avg),
                 seasonal_variation_pct |->
                    Times100(FloatDiv(RSub(RMax(Values(monthly_avg)),
                                           RMin(Values(monthly_avg))),
                                      MeanOfGroups(monthly_avg)))]

\* data_sources, in the order the blocks append to it
DataSources(trend_df, icb_df) ==
    (IF ~empty(trend_df) THEN <<"OpenPrescribing trend data (36 months)">> ELSE <<>>)
    \o (IF ~empty(icb_df) /\ "row_name" \in icb_df.cols
        THEN <<"OpenPrescribing ICB data (12 months)">> ELSE <<>>)

get_enhanced_drug_analysis(w, t, drug_name, months) ==
    LET trend_df == get_total_spending_trend(w, t, drug_name, months)
        trend    == TrendBlock(trend_df.val)
        icb_df   == get_drug_spending_by_icb(w, t, drug_name, IntArg(12))
        regional == RegionalBlock(icb_df.val)
    IN  IF Raised(trend_df) THEN trend_df
        ELSE IF Raised(trend) THEN trend
        ELSE IF Raised(icb_df) THEN icb_df
        ELSE IF Raised(regional) THEN regional
        ELSE Ret([drug_name |-> drug_name,
                  analysis_date |-> t,
                  data_sources |-> DataSources(trend_df.val, icb_df.val)]
                 @@ trend.val @@ regional.val @@ SeasonalBlock(trend_df.val))

(***************************************************************************)
(* Inputs of the analysis: trend series and regional breakdowns.           *)
(***************************************************************************)
\* adalimumab's code in the table
AnalysisCode == <<"0","2","1","2","0","0","0","A","A">>

Costs == {0, 100, 120}

\* the latest period the source holds: two or seven months back
LastPeriods == {ThisMonth - 2, ThisMonth - 7}

\* n periods of cost mid, the first of cost lo and the last of cost hi
EndsSeries(n, last, lo, mid, hi) ==
    [i \in 1..n |->
        [date |-> last - n + i,
         actual_cost |-> IF i = 1 THEN lo ELSE IF i = n THEN hi ELSE mid,
         items |-> 10 * i,
         row_name |-> <<>>]]

\* a series with the costs given, period by period
CostSeries(last, costs) ==
    [i \in 1..Len(costs) |->
        [date |-> last - Len(costs) + i,
         actual_cost |-> costs[i],
         items |-> 10 * i,
         row_name |-> <<>>]]

\* thirteen periods whose last six cost 10% less, 10% more, 11% less and 11%
\* more than the first six: six costs that sum to 100 or to 600 first
TenPercentCosts ==
    {<<10, 10, 10, 10, 10, 50, 20>> \o later :
        later \in {<<15, 15, 15, 15, 15, 15>>, <<15, 15, 20, 20, 20, 20>>,
                   <<15, 15, 15, 15, 15, 14>>, <<15, 15, 20, 20, 20, 21>>}}
    \cup {<<100, 100, 100, 100, 100, 100, 100>> \o [i \in 1..6 |-> c] :
            c \in {90, 110, 89, 111}}

TrendSeries ==
    {Series(n, last, a, b, k) :
        n \in 0..MaxPeriods, last \in LastPeriods, a \in Costs, b \in Costs,
        k \in 1..MaxPeriods}
    \cup {EndsSeries(n, last, 80, 100, 120) : n \in 12..MaxPeriods, last \in LastPeriods}
    \cup {CostSeries(ThisMonth - 2, costs) : costs \in TenPercentCosts}

TrendBodies ==
    {RecordsBody(TrendKeys, s) : s \in TrendSeries}
    \cup {RecordsBody(keys, Series(n, ThisMonth - 2, 100, 120, 2)) :
            keys \in {TrendKeys \ {"actual_cost"}, TrendKeys \ {"items"},
                      TrendKeys \ {"date"}},
            n \in {1, 13}}

RegionNames ==
    { <<"N","H","S"," ","D","e","r","b","y">>,
      <<"d","e","r","b","y","s","h","i","r","e">>,
      <<"L","e","e","d","s">>, <<"Y","o","r","k">>, <<"K","e","n","t">> }

\* two periods for every region, in the order of names: cost[name] in the
\* latest period and a fifth of it the period before
RegionRows(names, cost, last) ==
    [i \in 1..(2 * Len(names)) |->
        LET name == names[((i - 1) % Len(names)) + 1]
        IN  [date |-> IF i <= Len(names) THEN last ELSE last - 1,
             actual_cost |-> IF i <= Len(names) THEN cost[name]
                             ELSE cost[name] \div 5,
             items |-> IF i <= Len(names) THEN 7 ELSE 3,
             row_name |-> name]]

RECURSIVE Reverse(_)
Reverse(s) == IF s = <<>> THEN <<>> ELSE Append(Reverse(Tail(s)), Head(s))

RegionSets ==
    {S \in SUBSET RegionNames : Cardinality(S) \in 1..MaxRegions}

RegionalBodies ==
    UNION {{RecordsBody(OrgKeys,
                        RegionRows(Reverse(SortedNames(S)), cost, ThisMonth - 2)) :
                cost \in [S -> Costs]} : S \in RegionSets}
    \cup {RecordsBody(keys, RegionRows(SortedNames(RegionNames), 
                                       [name \in RegionNames |-> 100],
                                       ThisMonth - 2)) :
            keys \in {OrgKeys \ {"row_name"}, OrgKeys \ {"actual_cost"},
                      OrgKeys \ {"date"}}}
    \cup {[shape |-> "object", keys |-> {"detail"}, rows |-> <<>>,
           dates_parse |-> TRUE]}

AnalysisWorld(trend, regional) ==
    [net |-> "ok", known |-> {AnalysisCode}, spending |-> trend, by_org |-> regional]

DeriveWorlds ==
    DownWorlds
    \cup {AnalysisWorld(tb, EmptyListBody) : tb \in TrendBodies}
    \cup {AnalysisWorld(RecordsBody(TrendKeys, Series(n, ThisMonth - 2, 100, 120, 2)), rb) :
            n \in {0, 13}, rb \in RegionalBodies}

(***************************************************************************)
(* SpecDerive: get_enhanced_drug_analysis(code) with its default window of *)
(* 36 months, applied to every trend series and regional breakdown.        *)
(***************************************************************************)
InitDerive ==
    /\ pc = "start"
    /\ query = AnalysisCode
    /\ world \in DeriveWorlds
    /\ now = Noon15
    /\ matches = NotCalled
    /\ fetched = NotCalled
    /\ analysis = NotCalled
    /\ session = NoSession
    /\ page_run = NotRun
    /\ cache = NoCache
    /\ returned = <<>>
    /\ dashboard = NotCalled
    /\ upload = NotCalled
    /\ sent = <<>>
    /\ payload = NotCalled

Derive ==
    /\ pc = "start"
    /\ pc' = "get_enhanced_drug_analysis"
    /\ analysis' = get_enhanced_drug_analysis(world, now, query, IntArg(36))
    /\ UNCHANGED <<query, world, now, matches, fetched, session, page_run,
                 cache, returned, dashboard, upload, sent, payload>>

NextDerive == Derive

SpecDerive == InitDerive /\ [][NextDerive]_vars

(***************************************************************************)
(* Claims about get_enhanced_drug_analysis, checked under SpecDerive.      *)
(***************************************************************************)
Derived == pc = "get_enhanced_drug_analysis"

\* the trend frame the analysis works on
TrendFrame == get_total_spending_trend(world, now, query, IntArg(36))

\* a usable trend frame of n periods
TrendPeriods(n) ==
    /\ ~Raised(TrendFrame)
    /\ Len(TrendFrame.val.rows) = n
    /\ TrendKeys \subseteq TrendFrame.val.cols

Has(dict, key) == key \in DOMAIN dict

\* C1: with a trend series of exactly 12 periods the analysis returns, and
\* returns without a year-over-year field.
C1_TwelvePeriodsOmitYoY ==
    (Derived /\ TrendPeriods(12)) =>
        /\ ~Raised(analysis)
        /\ Has(analysis.val, "trend_data")
        /\ ~Has(analysis.val.trend_data, "yoy_change_pct")

\* the percentage fields present in a result
PercentageFields(result) ==
    (IF Has(result, "trend_data")
     THEN {result.trend_data[f] :
             f \in {"mom_change_pct", "yoy_change_pct"} \cap DOMAIN result.trend_data}
     ELSE {})
    \cup (IF Has(result, "regional_data") /\ Has(result.regional_data, "derby_vs_national")
          THEN {result.regional_data.derby_vs_national.vs_average_pct}
          ELSE {})
    \cup (IF Has(result, "seasonal_patterns")
          THEN {result.seasonal_patterns.seasonal_variation_pct}
          ELSE {})

\* C2: a percentage field that is present in a result is a finite number: a
\* zero denominator leaves the field out instead of storing an infinity or a
\* not-a-number.
C2_PercentagesPresentOnlyWhenDefined ==
    (Derived /\ ~Raised(analysis)) =>
        \A p \in PercentageFields(analysis.val) : p.k = "fin"

\* every calendar month of the trend frame has the same average cost
MonthlyAveragesEqual ==
    Cardinality(Values(GroupMeans(TrendFrame.val.rows,
                                  MonthColumn(TrendFrame.val.rows),
                                  "actual_cost"))) = 1

\* C3: whenever the analysis computes a seasonal variation for a series of at
\* least 12 periods whose per-calendar-month average costs are all equal (all
\* zero included), the variation is exactly 0.0.
C3_EqualMonthlyAveragesGiveZeroVariation ==
    (/\ Derived
     /\ \E n \in 12..(MaxPeriods + 1) : TrendPeriods(n)
     /\ MonthlyAveragesEqual
     /\ ~Raised(analysis)
     /\ Has(analysis.val, "seasonal_patterns")) =>
        analysis.val.seasonal_patterns.seasonal_variation_pct = Fin(Whole(0))

\* the trend fetch of the analysis returned an empty record set
EmptyTrend == ~Raised(TrendFrame) /\ empty(TrendFrame.val)

\* the regional endpoint is down or answers with a list, possibly empty, of
\* records that carry every key of the endpoint
RegionalRecords ==
    \/ world.net \in RequestFailures
    \/ /\ world.net = "ok"
       /\ world.by_org.shape = "records"
       /\ world.by_org.dates_parse
       /\ (world.by_org.rows = <<>> \/ world.by_org.keys = OrgKeys)

\* C12: the analysis of an empty trend record set returns, and its result has
\* neither the trend fields nor the seasonal fields.
C12_EmptyTrendGivesNoTrendNoSeasonal ==
    (Derived /\ EmptyTrend /\ RegionalRecords) =>
        /\ ~Raised(analysis)
        /\ ~Has(analysis.val, "trend_data")
        /\ ~Has(analysis.val, "seasonal_patterns")

\* the trend frame has at least 2 periods and a second-to-last cost other
\* than zero
MoMDefined ==
    /\ \E n \in 2..(MaxPeriods + 1) : TrendPeriods(n)
    /\ TrendFrame.val.rows[Len(TrendFrame.val.rows) - 1].actual_cost # 0

LastCost == TrendFrame.val.rows[Len(TrendFrame.val.rows)].actual_cost

PreviousCost == TrendFrame.val.rows[Len(TrendFrame.val.rows) - 1].actual_cost

\* (last - previous) / previous * 100 as one fraction
ExpectedMoM == Fin(Rat((LastCost - PreviousCost) * 100, PreviousCost))

RegionalFrame == get_drug_spending_by_icb(world, now, query, IntArg(12))

\* the regional frame has rows with every column of the endpoint
RegionalRows ==
    /\ ~Raised(RegionalFrame)
    /\ ~empty(RegionalFrame.val)
    /\ OrgKeys \subseteq RegionalFrame.val.cols

\* the regions of the regional frame
Regions == {RegionalFrame.val.rows[i].row_name : i \in 1..Len(RegionalFrame.val.rows)}

\* the summed cost of a region
SummedCost(name) ==
    SumOf(SelectSeq(RegionalFrame.val.rows, LAMBDA r : r.row_name = name), "actual_cost")

\* the regions whose name contains "derby" in any case; the local region is
\* the first of them in the order of the grouped summary
LocalRegions == {name \in Regions : ContainsDerby(name)}

LocalRegion == SortedNames(LocalRegions)[1]

LocalIsMaximum ==
    /\ RegionalRows
    /\ LocalRegions # {}
    /\ \A name \in Regions : SummedCost(name) <= SummedCost(LocalRegion)

\* C15: for every set of one or more regions in which the local region's
\* summed cost is the maximum, the analysis yields a percentile rank of 100
\* for the local region.
C15_LocalMaximumRanksHundred ==
    (Derived /\ ~Raised(TrendFrame) /\ LocalIsMaximum) =>
        /\ ~Raised(analysis)
        /\ Has(analysis.val, "regional_data")
        /\ Has(analysis.val.regional_data, "derby_vs_national")
        /\ analysis.val.regional_data.derby_vs_national.percentile_rank = Whole(100)

(***************************************************************************)
(* SpecRepeat: get_enhanced_drug_analysis called again and again while the *)
(* clock advances and the remote source stays as it is.  The function is   *)
(* wrapped in st.cache_data(ttl=3600): a call returns the stored value of  *)
(* an entry younger than the time to live and otherwise runs the body and  *)
(* stores what it returns; an exception stores nothing.                    *)
(***************************************************************************)
\* ttl=3600, in seconds
TTL == 3600

HalfHour == 30 * 60

\* how long a session is followed, in half hours
MaxHalfHours == 4

\* a store whose entries never age
Fresh_NeverExpires(c, key, t) == key \in DOMAIN c

\* the entry of key is there and younger than the time to live
Fresh(c, key, t) == key \in DOMAIN c /\ t < c[key].at + TTL

\* a store that keeps no None
Cached_ForgetsNone(c, key, t, computed) ==
    IF key \in DOMAIN c /\ t < c[key].at + TTL
    THEN [outcome |-> Ret(c[key].value), cache |-> c]
    ELSE IF Raised(computed) \/ computed.val.shape = "none"
    THEN [outcome |-> computed, cache |-> c]
    ELSE [outcome |-> computed,
          cache |-> (key :> [at |-> t, value |-> computed.val]) @@ c]

\* a call of a function wrapped in st.cache_data at time t, where computed is
\* what the body yields: the outcome of the call and the store after it
Cached(c, key, t, computed) ==
    IF Fresh(c, key, t) THEN [outcome |-> Ret(c[key].value), cache |-> c]
    ELSE IF Raised(computed) THEN [outcome |-> computed, cache |-> c]
    ELSE [outcome |-> computed,
          cache |-> (key :> [at |-> t, value |-> computed.val]) @@ c]

\* the last two entries of a log
LastTwo(log) == IF Len(log) <= 2 THEN log ELSE SubSeq(log, Len(log) - 1, Len(log))

RepeatWorlds ==
    DownWorlds
    \cup {AnalysisWorld(RecordsBody(TrendKeys, Series(n, ThisMonth - 2, 100, 120, 2)), rb) :
            n \in {0, 2, 13},
            rb \in {EmptyListBody,
                    RecordsBody(OrgKeys,
                                RegionRows(SortedNames(RegionNames),
                                           [name \in RegionNames |-> 100],
                                           ThisMonth - 2))}}

InitRepeat ==
    /\ pc = "start"
    /\ query = AnalysisCode
    /\ world \in RepeatWorlds
    /\ now = Noon15
    /\ matches = NotCalled
    /\ fetched = NotCalled
    /\ analysis = NotCalled
    /\ session = NoSession
    /\ page_run = NotRun
    /\ cache = NoCache
    /\ returned = <<>>
    /\ dashboard = NotCalled
    /\ upload = NotCalled
    /\ sent = <<>>
    /\ payload = NotCalled

\* the outcome of a call is kept with the time of the call
EndCall(call) ==
    /\ analysis' = call.outcome
    /\ cache' = call.cache
    /\ returned' = LastTwo(Append(returned, [at |-> now, outcome |-> call.outcome]))
    /\ pc' = "get_enhanced_drug_analysis"
    /\ UNCHANGED <<query, world, now, matches, fetched, session, page_run,
                   dashboard, upload, sent, payload>>

CallAnalysis ==
    EndCall(Cached(cache, <<"get_enhanced_drug_analysis", query, 36>>, now,
                   get_enhanced_drug_analysis(world, now, query, IntArg(36))))

\* time passes
Wait ==
    \E d \in {HalfHour, 2 * HalfHour} :
        /\ now + d <= Noon15 + MaxHalfHours * HalfHour
        /\ now' = now + d
        /\ UNCHANGED <<pc, query, world, matches, fetched, analysis, session,
                       page_run, cache, returned, dashboard, upload, sent, payload>>

\* lines 393-395: the Clear Cache button
ClearCache ==
    /\ cache # NoCache
    /\ cache' = NoCache
    /\ UNCHANGED <<pc, query, world, now, matches, fetched, analysis, session,
                   page_run, returned, dashboard, upload, sent, payload>>

NextRepeat == CallAnalysis \/ Wait \/ ClearCache

SpecRepeat == InitRepeat /\ [][NextRepeat]_vars

\* the trend and regional record sets the analysis works on when called at t
InputsAt(t) ==
    <<get_total_spending_trend(world, t, query, IntArg(36)),
      get_drug_spending_by_icb(world, t, query, IntArg(12))>>

\* C13: two calls of the analysis with identical trend and regional inputs
\* return results identical in every field, whenever the calls are made.
C13_RepeatedAnalysisIdentical ==
    (/\ Len(returned) = 2
     /\ InputsAt(returned[1].at) = InputsAt(returned[2].at)) =>
        returned[1].outcome = returned[2].outcome

(***************************************************************************)
(* SpecFetch: the two fetch operations applied to every answer of the      *)
(* remote source and every window.                                         *)
(***************************************************************************)
FetchSeries ==
    {Series(n, last, 100, 120, 2) : n \in 0..MaxPeriods, last \in LastPeriods}

\* the regional body of a series: its periods, spread over two regions
AsRegional(body) ==
    [body EXCEPT
        !.keys = IF @ = TrendKeys THEN OrgKeys ELSE @,
        !.rows = [i \in 1..Len(@) |->
                    [@[i] EXCEPT !.row_name =
                        IF i % 2 = 0 THEN <<"L","e","e","d","s">>
                        ELSE <<"Y","o","r","k">>]]]

\* the series as the source may list them: oldest first, newest first, or
\* with the newest record moved to the front
FetchBodies ==
    ProbeBodies
    \cup {RecordsBody(TrendKeys, s) : s \in FetchSeries}
    \cup {RecordsBody(TrendKeys, Reverse(s)) : s \in FetchSeries}
    \cup {RecordsBody(TrendKeys, <<s[Len(s)]>> \o SubSeq(s, 1, Len(s) - 1)) :
            s \in FetchSeries \ {<<>>}}

\* the moment 360 days after the start of the period eleven months back: a
\* 12-month window then starts exactly on a period
Day360 == to_datetime(ThisMonth - 11) + timedelta_days(360)

FetchWorlds ==
    DownWorlds
    \cup {[net |-> "ok", known |-> {AnalysisCode}, spending |-> b,
           by_org |-> AsRegional(b)] : b \in FetchBodies}

Windows == {1, 12, 36}

\* the outcome of a fetch, with the window it was called with
Windowed(outcome, months) ==
    [exc |-> outcome.exc, val |-> outcome.val, months |-> months]

InitFetch ==
    /\ pc = "start"
    /\ query = AnalysisCode
    /\ world \in FetchWorlds
    /\ now \in {Noon15, to_datetime(ThisMonth), Day360}
    /\ matches = NotCalled
    /\ fetched = NotCalled
    /\ analysis = NotCalled
    /\ session = NoSession
    /\ page_run = NotRun
    /\ cache = NoCache
    /\ returned = <<>>
    /\ dashboard = NotCalled
    /\ upload = NotCalled
    /\ sent = <<>>
    /\ payload = NotCalled

FetchTrend ==
    /\ pc = "start"
    /\ pc' = "get_total_spending_trend"
    /\ \E months \in Windows :
          fetched' = Windowed(get_total_spending_trend(world, now, query,
                                                       IntArg(months)), months)
    /\ UNCHANGED <<query, world, now, matches, analysis, session, page_run,
                 cache, returned, dashboard, upload, sent, payload>>

FetchRegional ==
    /\ pc = "start"
    /\ pc' = "get_drug_spending_by_icb"
    /\ \E months \in Windows :
          fetched' = Windowed(get_drug_spending_by_icb(world, now, query,
                                                       IntArg(months)), months)
    /\ UNCHANGED <<query, world, now, matches, analysis, session, page_run,
                 cache, returned, dashboard, upload, sent, payload>>

NextFetch == FetchTrend \/ FetchRegional

SpecFetch == InitFetch /\ [][NextFetch]_vars

(***************************************************************************)
(* Claims about the fetch operations, checked under SpecFetch.             *)
(***************************************************************************)
Fetched == pc \in {"get_total_spending_trend", "get_drug_spending_by_icb"}

\* the body the source holds for the endpoint just fetched
FetchedBody ==
    IF pc = "get_total_spending_trend" THEN world.spending ELSE world.by_org

\* the upstream outcome carries no usable data: the host is unreachable, the
\* request times out, the status is not 200, the body is not JSON, or the JSON
\* is an empty list, a list of empty records or not a list of records
NoUsableData ==
    \/ world.net \in RequestFailures \cup {"bad_json"}
    \/ /\ world.net = "ok"
       /\ \/ FetchedBody.shape # "records"
          \/ FetchedBody.rows = <<>>
          \/ FetchedBody.keys = {}

\* C10: a fetch whose upstream outcome carries no usable data returns an empty
\* record set and raises nothing.
C10_NoDataIsEmptyNeverAnError ==
    (Fetched /\ NoUsableData) =>
        /\ ~Raised(fetched)
        /\ empty(fetched.val)

\* the trend endpoint answered with a non-empty list of dated records
DatedTrendRecords ==
    /\ pc = "get_total_spending_trend"
    /\ world.net = "ok"
    /\ world.spending.shape = "records"
    /\ world.spending.rows # <<>>
    /\ "date" \in world.spending.keys
    /\ world.spending.dates_parse

\* now minus window_months x 30 days
Cutoff == now - fetched.months * 30 * 24 * 60 * 60

\* the received records whose period is on or after the cutoff
OnOrAfterCutoff ==
    {i \in 1..Len(world.spending.rows) :
        to_datetime(world.spending.rows[i].date) >= Cutoff}

\* C11: for a non-empty response of dated records and every window, the trend
\* fetch returns the records ascending by period: every record on or after
\* the cutoff "now minus window x 30 days" and no other.
C11_SortedAndExactlyTheWindow ==
    DatedTrendRecords =>
        LET got == fetched.val.rows
            received == world.spending.rows
        IN  /\ ~Raised(fetched)
            /\ \A j \in 1..(Len(got) - 1) : got[j].date <= got[j + 1].date
            /\ Len(got) = Cardinality(OnOrAfterCutoff)
            /\ \A i \in OnOrAfterCutoff :
                  \E j \in 1..Len(got) :
                      got[j] = [received[i] EXCEPT !.date = to_datetime(@)]
            /\ \A j \in 1..Len(got) : got[j].date >= Cutoff

\* records received newest first, some before the cutoff and some after it,
\* one of them exactly on it
C11_Witness ==
    /\ DatedTrendRecords
    /\ ~Raised(fetched)
    /\ Len(world.spending.rows) >= 2
    /\ world.spending.rows[1].date > world.spending.rows[2].date
    /\ Len(fetched.val.rows) >= 2
    /\ Len(fetched.val.rows) < Len(world.spending.rows)
    /\ fetched.val.rows[1].date = Cutoff

(***************************************************************************)
(* Related drugs and the narrative context.                                *)
(***************************************************************************)
\* the first definition of get_bnf_categories (the second is unreachable)
get_bnf_categories ==
    (<<"0","1">> :> "Gastro-Intestinal System")
    @@ (<<"0","2">> :> "Cardiovascular System")
    @@ (<<"0","3">> :> "Respiratory System")
    @@ (<<"0","4">> :> "Central Nervous System")
    @@ (<<"0","5">> :> "Infections")
    @@ (<<"0","6">> :> "Endocrine System")
    @@ (<<"0","7">> :> "Obstetrics, Gynaecology, and Urinary-Tract Disorders")
    @@ (<<"0","8">> :> "Malignant Disease and Immunosuppression")
    @@ (<<"0","9">> :> "Nutrition and Blood")
    @@ (<<"1","0">> :> "Musculoskeletal and Joint Diseases")
    @@ (<<"1","1">> :> "Eye")
    @@ (<<"1","2">> :> "Ear, Nose, and Oropharynx")
    @@ (<<"1","3">> :> "Skin")
    @@ (<<"1","4">> :> "Immunological Products and Vaccines")
    @@ (<<"1","5">> :> "Anaesthesia")

\* code.startswith(chapter)
StartsWith(s, prefix) == Len(prefix) <= Len(s) /\ SubSeq(s, 1, Len(prefix)) = prefix

get_related_drugs_context(bnf_code) ==
    LET chapter == Take(bnf_code, 2)
        related_drugs ==
            SelectSeq(get_bnf_lookup,
                      LAMBDA e : StartsWith(e.code, chapter) /\ e.code # bnf_code)
    IN  [bnf_chapter |-> chapter,
         related_drugs |-> Take(related_drugs, 5),
         bnf_categories |-> get_bnf_categories]

\* the integer nearest to n / d (n >= 0, d > 0), ties to the even one
RoundHalfEven(n, d) ==
    LET q == n \div d
        r == n % d
    IN  IF 2 * r < d THEN q
        ELSE IF 2 * r > d THEN q + 1
        ELSE IF q % 2 = 0 THEN q ELSE q + 1

\* format(x, '.1f') and format(x, '+.1f') of a float: the sign and the number
\* of tenths
Format1f(f, plus) ==
    [sign |-> IF f.k = "-inf" \/ (f.k = "fin" /\ f.v[1] < 0) THEN "-"
              ELSE IF plus THEN "+" ELSE "",
     digits |-> IF f.k = "fin" THEN RoundHalfEven(10 * Abs(f.v[1]), f.v[2]) ELSE 0,
     special |-> IF f.k = "fin" THEN "" ELSE IF f.k = "nan" THEN "nan" ELSE "inf"]

\* format(x, ',.0f') of a finite value
Format0f(x) ==
    [sign |-> IF x[1] < 0 THEN "-" ELSE "",
     digits |-> RoundHalfEven(Abs(x[1]), x[2]),
     special |-> ""]

Line(text, args) == [text |-> text, args |-> args]

\* the empty string an f-string expression yields when its condition fails
Blank == Line("", <<>>)

\* ', '.join(items)
Joined(items) == IF items = <<>> THEN Blank ELSE Line("{}", items)

\* lines 537-569: the f-string, section by section and line by line
comprehensive_context(drug_name, bnf_code, category, enhanced_analysis, related_context) ==
    LET has_trend == Has(enhanced_analysis, "trend_data")
        trend == enhanced_analysis.trend_data
        has_regional == Has(enhanced_analysis, "regional_data")
        regional == enhanced_analysis.regional_data
        has_seasonal == Has(enhanced_analysis, "seasonal_patterns")
        seasonal == enhanced_analysis.seasonal_patterns
        chapter == related_context.bnf_chapter
    IN  [title |-> Line("Comprehensive Analysis for {}:", <<Title(drug_name)>>),
         drug_information |->
            << Line("- BNF Code: {}", <<bnf_code>>),
               Line("- Category: {}", <<category>>),
               Line("- BNF Chapter: {} - {}",
                    <<chapter,
                      IF chapter \in DOMAIN related_context.bnf_categories
                      THEN related_context.bnf_categories[chapter]
                      ELSE "Unknown">>) >>,
         spending_trends |->
            << IF has_trend THEN Line("- Data Period: {}", <<trend.date_range>>)
               ELSE Line("- No trend data available", <<>>),
               IF has_trend
               THEN Line("- Latest Monthly Cost: {}", <<Format0f(Whole(trend.latest_cost))>>)
               ELSE Blank,
               IF has_trend
               THEN Line("- Latest Monthly Items: {}", <<Format0f(Whole(trend.latest_items))>>)
               ELSE Blank,
               IF has_trend /\ Has(trend, "mom_change_pct")
               THEN Line("- Month-on-Month Change: {}%",
                         <<Format1f(trend.mom_change_pct, TRUE)>>)
               ELSE Blank,
               IF has_trend /\ Has(trend, "yoy_change_pct")
               THEN Line("- Year-on-Year Change: {}%",
                         <<Format1f(trend.yoy_change_pct, TRUE)>>)
               ELSE Blank,
               IF has_trend /\ Has(trend, "overall_trend")
               THEN Line("- Overall Trend: {}", <<trend.overall_trend>>)
               ELSE Blank >>,
         regional_analysis |->
            << IF has_regional THEN Line("- Total ICBs: {}", <<regional.total_icbs>>)
               ELSE Line("- No regional data available", <<>>),
               IF has_regional
               THEN Line("- Highest Spending ICB: {} ({})",
                         <<regional.highest_spending_icb,
                           Format0f(Whole(regional.highest_spending_amount))>>)
               ELSE Blank,
               IF has_regional
               THEN Line("- Lowest Spending ICB: {} ({})",
                         <<regional.lowest_spending_icb,
                           Format0f(Whole(regional.lowest_spending_amount))>>)
               ELSE Blank,
               IF has_regional
               THEN Line("- National Average ICB Cost: {}",
                         <<Format0f(regional.average_icb_cost)>>)
               ELSE Blank,
               IF has_regional /\ Has(regional, "derby_vs_national")
               THEN Line("- Derby vs National Average: {}% ({})",
                         <<Format1f(regional.derby_vs_national.vs_average_pct, TRUE),
                           Format0f(Whole(regional.derby_vs_national.derby_cost))>>)
               ELSE Blank >>,
         seasonal_patterns |->
            << IF has_seasonal
               THEN Line("- Highest Spending Month: {}",
                         <<seasonal.highest_spending_month>>)
               ELSE Line("- Insufficient data for seasonal analysis", <<>>),
               IF has_seasonal
               THEN Line("- Seasonal Variation: {}%",
                         <<Format1f(seasonal.seasonal_variation_pct, FALSE)>>)
               ELSE Blank >>,
         related_drugs |->
            << Joined([i \in 1..Len(Take(related_context.related_drugs, 3)) |->
                          Title(related_context.related_drugs[i].name)]) >>,
         data_sources |-> << Joined(enhanced_analysis.data_sources) >>]

(***************************************************************************)
(* The page script.  Streamlit runs the whole script on every interaction; *)
(* one run is one step.  st.session_state is a function from the keys that *)
(* have been set to their values.                                          *)
(***************************************************************************)
\* st.session_state.key = value
SetKey(state, key, value) == (key :> value) @@ state

\* sorted(list of str)
SortedSeq(s) == SortedNames(Range(s))

\* lines 267-288
get_drug_suggestions(q) ==
    IF Len(q) < 2 THEN <<>>
    ELSE LET query_lower == Lower(q)
             names == [i \in 1..Len(get_bnf_lookup) |-> get_bnf_lookup[i].name]
             starts == SelectSeq(names, LAMBDA n : StartsWith(Lower(n), query_lower))
             contains ==
                 IF Len(starts) < 5
                 THEN SelectSeq(names,
                                LAMBDA n : /\ IsSubstr(query_lower, Lower(n))
                                           /\ n \notin Range(starts))
                 ELSE <<>>
         IN  Take(SortedSeq(starts \o contains), 8)

\* lines 411-437: the suggestion buttons the run draws (four in the first row
\* and up to four in the second)
SuggestionButtons(drug_query) ==
    LET found == get_drug_suggestions(drug_query)
    IN  IF Len(drug_query) >= 2 /\ found # <<>>
           /\ Lower(drug_query) \notin {Lower(s) : s \in Range(found)}
        THEN Range(found)
        ELSE {}

\* lines 448-466
QuickSearches ==
    { <<"a","d","a","l","i","m","u","m","a","b">>,
      <<"i","n","f","l","i","x","i","m","a","b">>,
      <<"m","e","t","f","o","r","m","i","n">>,
      <<"a","t","o","r","v","a","s","t","a","t","i","n">> }

NoButton == <<>>

\* a run in which the text box fills current_drug only while the session
\* holds none, so that a pressed suggestion survives the rerun
AfterWidgets_KeepsSessionDrug(state, drug_query, quick) ==
    LET typed == IF drug_query # <<>> /\ ~Has(state, "current_drug")
                 THEN SetKey(SetKey(state, "search_performed", TRUE),
                             "current_drug", drug_query)
                 ELSE state
    IN  IF quick # NoButton
        THEN SetKey(SetKey(typed, "search_performed", TRUE), "current_drug", quick)
        ELSE typed

\* lines 440-466: the text box, then the quick-search button pressed, if any
AfterWidgets(state, drug_query, quick) ==
    LET typed == IF drug_query # <<>>
                 THEN SetKey(SetKey(state, "search_performed", TRUE),
                             "current_drug", drug_query)
                 ELSE state
    IN  IF quick # NoButton
        THEN SetKey(SetKey(typed, "search_performed", TRUE), "current_drug", quick)
        ELSE typed

\* lines 533-569: what the run stores once the analysis has returned
Stored(state, m, enhanced_analysis) ==
    LET related_context == get_related_drugs_context(m.code)
    IN  SetKey(SetKey(SetKey(state, "current_drug_analysis", enhanced_analysis),
                      "related_drugs_context", related_context),
               "comprehensive_context",
               comprehensive_context(m.name, m.code, m.category,
                                     enhanced_analysis, related_context))

\* lines 521-576: the first match is analysed.  The page passes the drug name
\* where get_enhanced_drug_analysis takes its window in months (lines 522 and
\* 531); line 576 reads the name "source", which the script never binds.
AnalyseFirst(state, found, enhanced_analysis) ==
    IF Raised(enhanced_analysis)
    THEN [state |-> state, matches |-> found, analysis |-> enhanced_analysis,
          run |-> [exc |-> enhanced_analysis.exc,
                   from |-> "get_enhanced_drug_analysis", stored |-> FALSE]]
    ELSE [state |-> Stored(state, found.val[1], enhanced_analysis.val),
          matches |-> found, analysis |-> enhanced_analysis,
          run |-> [exc |-> "NameError", from |-> "page", stored |-> TRUE]]

\* lines 475-479: the matches search_drugs returned
WithMatches(state, w, t, found) ==
    IF Raised(found)
    THEN [state |-> state, matches |-> found, analysis |-> NotCalled,
          run |-> [exc |-> found.exc, from |-> "search_drugs", stored |-> FALSE]]
    ELSE IF found.val = <<>>
    THEN [state |-> state, matches |-> found, analysis |-> NotCalled,
          run |-> [exc |-> "none", from |-> "", stored |-> FALSE]]
    ELSE AnalyseFirst(state, found,
                      get_enhanced_drug_analysis(w, t, found.val[1].code, StrArg))

\* lines 468-576: the search block of one run
SearchBlock(state, w, t) ==
    IF ~(Has(state, "search_performed") /\ state.search_performed)
    THEN [state |-> state, matches |-> NotCalled, analysis |-> NotCalled,
          run |-> [exc |-> "none", from |-> "", stored |-> FALSE]]
    ELSE WithMatches(state, w, t, search_drugs(w, t, state.current_drug))

\* the run ends: what it leaves in the session and what it raised
EndRun(outcome, drug_query) ==
    /\ session' = outcome.state
    /\ matches' = outcome.matches
    /\ analysis' = outcome.analysis
    /\ page_run' = outcome.run
    /\ query' = drug_query
    /\ pc' = "page"
    /\ UNCHANGED <<world, now, fetched,
                 cache, returned, dashboard, upload, sent, payload>>

\* one run of the script with the text box holding drug_query
RunPage(state, drug_query, quick) ==
    EndRun(SearchBlock(AfterWidgets(state, drug_query, quick), world, now), drug_query)

(***************************************************************************)
(* Spec: a session on the page.  The remote source is in one condition for *)
(* the whole session; the user types, presses Search, presses a suggestion *)
(* or presses a quick search.                                              *)
(***************************************************************************)
\* what the user types: a table name, a fragment of several names, a name the
\* table lacks, a ten-character code and a mixed-case name
PageQueries ==
    { <<"m","e","t","f","o","r","m","i","n">>,
      <<"m","a","b">>,
      <<"x","y","z","z","y">>,
      <<"0","2","1","2","0","0","0","A","A","0">>,
      <<"S","e","r","t","r","a","l","i","n","e">> }

\* the bodies of the spending and spending_by_org endpoints during a session
PageTrendBodies ==
    {EmptyListBody,
     RecordsBody(TrendKeys, Series(13, ThisMonth - 2, 100, 120, 2)),
     RecordsBody(TrendKeys, Series(1, ThisMonth, 100, 120, 2)),
     RecordsBody(TrendKeys \ {"date"}, Series(1, ThisMonth, 100, 120, 2))}

PageRegionalBodies ==
    {EmptyListBody,
     RecordsBody(OrgKeys,
                 RegionRows(SortedNames(RegionNames), [name \in RegionNames |-> 100],
                            ThisMonth - 2))}

\* the codes the source holds records for: none, the table's, or also the
\* typed code
PageKnown ==
    {{}, TableCodes, TableCodes \cup PageQueries}

PageWorlds ==
    DownWorlds
    \cup {[net |-> "ok", known |-> k, spending |-> tb, by_org |-> rb] :
            k \in PageKnown, tb \in PageTrendBodies, rb \in PageRegionalBodies}

Init ==
    /\ pc = "page"
    /\ query = <<>>
    /\ world \in PageWorlds
    /\ now = Noon15
    /\ matches = NotCalled
    /\ fetched = NotCalled
    /\ analysis = NotCalled
    /\ session = NoSession
    /\ page_run = NotRun
    /\ cache = NoCache
    /\ returned = <<>>
    /\ dashboard = NotCalled
    /\ upload = NotCalled
    /\ sent = <<>>
    /\ payload = NotCalled

\* the user types into the text box and presses Enter
TypeQuery == \E q \in PageQueries : RunPage(session, q, NoButton)

\* the Search button, enabled while the text box is not empty
ClickSearch == query # <<>> /\ RunPage(session, query, NoButton)

\* a suggestion button: it sets the session keys and calls st.rerun(), and
\* the run that follows starts from them
ClickSuggestion ==
    \E s \in SuggestionButtons(query) :
        RunPage(SetKey(SetKey(session, "current_drug", s), "search_performed", TRUE),
                query, NoButton)

ClickQuickSearch == \E d \in QuickSearches : RunPage(session, query, d)

Next == TypeQuery \/ ClickSearch \/ ClickSuggestion \/ ClickQuickSearch

Spec == Init /\ [][Next]_vars

\* a run of the page that reached the search block with at least one match
PageResolved ==
    /\ pc = "page" /\ page_run # NotRun
    /\ ~Raised(matches) /\ matches # NotCalled /\ matches.val # <<>>

\* the upstream outcomes the claim names: records returned, empty, non-200,
\* timeout
NamedOutcome ==
    /\ world.net \in {"ok", "http_error", "timeout"}
    /\ world.spending.shape = "records" /\ world.spending.keys \in {{}, TrendKeys}
    /\ world.by_org.shape = "records" /\ world.by_org.keys \in {{}, OrgKeys}

\* C4: in the search flow, for every query with at least one match and for
\* every upstream outcome (records, empty, non-200, timeout), no exception
\* leaves fetch or derivation and the run stores the narrative context.
C4_PassCompletesAndStoresContext ==
    (PageResolved /\ NamedOutcome) =>
        /\ page_run.from \notin {"search_drugs", "get_enhanced_drug_analysis"}
        /\ page_run.stored
        /\ Has(session, "comprehensive_context")

(***************************************************************************)
(* The Analytics Dashboard page (src/pages/03_..._Analytics_Dashboard.py): *)
(* its three data functions and the figures each dashboard type shows.     *)
(* The page reads the same two endpoints with a drug name as the query.    *)
(***************************************************************************)
Adalimumab == <<"a","d","a","l","i","m","u","m","a","b">>

\* line 72
high_cost_drugs ==
    <<Adalimumab,
      <<"i","n","f","l","i","x","i","m","a","b">>,
      <<"r","i","t","u","x","i","m","a","b">>,
      <<"t","r","a","s","t","u","z","u","m","a","b">>,
      <<"o","m","a","l","i","z","u","m","a","b">>>>

\* df['drug_name'] = name
WithDrugName(rows, name) ==
    [i \in 1..Len(rows) |-> ("drug_name" :> name) @@ rows[i]]

\* lines 76-86: the frames one drug adds to all_data
DrugFrames(w, t, drug) ==
    LET data == get_openprescribing_data(w, "spending", drug)
    IN  IF Raised(data) THEN data
        ELSE IF ~Truthy(data.val) THEN Ret(<<>>)
        ELSE LET df == DataFrame(data.val)
             IN  IF Raised(df) THEN df
                 ELSE IF empty(df.val) THEN Ret(<<>>)
                 ELSE IF "date" \notin df.val.cols THEN Raise("KeyError")
                 ELSE IF ~data.val.dates_parse THEN Raise("ValueError")
                 ELSE Ret(<<[cols |-> df.val.cols \cup {"drug_name"},
                             rows |-> AfterCutoff(
                                        WithDrugName(ParseDates(df.val.rows), Title(drug)),
                                        t - timedelta_days(365))]>>)

RECURSIVE AllData(_, _, _)
\* lines 75-86: the loop over the drugs
AllData(w, t, drugs) ==
    IF drugs = <<>> THEN Ret(<<>>)
    ELSE LET first == DrugFrames(w, t, Head(drugs))
             rest == AllData(w, t, Tail(drugs))
         IN  IF Raised(first) THEN first
             ELSE IF Raised(rest) THEN rest
             ELSE Ret(first.val \o rest.val)

RECURSIVE concat(_)
\* pd.concat(frames, ignore_index=True)
concat(frames) ==
    IF frames = <<>> THEN EmptyDataFrame
    ELSE LET rest == concat(Tail(frames))
         IN  [cols |-> Head(frames).cols \cup rest.cols,
              rows |-> Head(frames).rows \o rest.rows]

\* lines 69-90
get_high_cost_drugs_data(w, t) ==
    LET all_data == AllData(w, t, high_cost_drugs)
    IN  IF Raised(all_data) THEN all_data
        ELSE IF all_data.val # <<>> THEN Ret(concat(all_data.val))
        ELSE Ret(EmptyDataFrame)

\* lines 95-108 and 119-130: the frame of the records since days ago, sorted
\* by date or as received; no frame without a date column
RecentFrame(data, t, days, sorted) ==
    IF Raised(data) THEN data
    ELSE IF ~Truthy(data.val) THEN Ret(EmptyDataFrame)
    ELSE LET df == DataFrame(data.val)
         IN  IF Raised(df) THEN df
             ELSE IF ~empty(df.val) /\ "date" \in df.val.cols
             THEN IF ~data.val.dates_parse THEN Raise("ValueError")
                  ELSE Ret([df.val EXCEPT !.rows =
                              AfterCutoff(IF sorted THEN sort_values(ParseDates(@))
                                          ELSE ParseDates(@),
                                          t - timedelta_days(days))])
             ELSE Ret(EmptyDataFrame)

\* lines 92-108
get_biosimilar_analysis(w, t) ==
    RecentFrame(get_openprescribing_data(w, "spending", Adalimumab), t, 730, TRUE)

\* lines 110-130
get_icb_performance_data(w, t) ==
    RecentFrame(get_openprescribing_data(w, "spending_by_org", Adalimumab), t, 180, FALSE)

\* how a run of the page ended: the exception that left it, whether
\* session_state.dashboard_data was stored, and the figures shown before
Page(exc, stored, shown) == [exc |-> exc, stored |-> stored, shown |-> shown]

\* x / y if y > 0 else 0
PerItemGuarded(x, y) == IF y > 0 THEN FloatDiv(Whole(x), Whole(y)) ELSE Fin(Whole(0))

\* the rows that hold a value of the column for the first time
FirstRows(rows, col) ==
    {i \in 1..Len(rows) : \A j \in 1..(i - 1) : rows[j][col] # rows[i][col]}

\* Series.unique(): the values of the column in order of first appearance
unique(rows, col) ==
    [k \in 1..Cardinality(FirstRows(rows, col)) |->
        rows[CHOOSE i \in FirstRows(rows, col) :
                 Cardinality({j \in FirstRows(rows, col) : j < i}) = k - 1][col]]

\* high_cost_df['date'].max()
latest_date(rows) ==
    CHOOSE d \in {rows[i].date : i \in 1..Len(rows)} :
        \A i \in 1..Len(rows) : rows[i].date <= d

\* a window that ends before the latest month
previous_window_BeforeLatest(drug_data, latest_month) ==
    SelectSeq(drug_data, LAMBDA r : /\ r.date >= latest_month - timedelta_days(30)
                                    /\ r.date < latest_month)

\* lines 207 and 214: drug_data[drug_data['date'] >= previous_month]
previous_window(drug_data, latest_month) ==
    SelectSeq(drug_data, LAMBDA r : r.date >= latest_month - timedelta_days(30))

\* line 213: drug_data[drug_data['date'] == latest_month]
latest_window(drug_data, latest_month) ==
    SelectSeq(drug_data, LAMBDA r : r.date = latest_month)

\* lines 217-218: abs(((latest_cost - previous_cost) / previous_cost) * 100) > 10
Significant(latest_cost, previous_cost) ==
    FloatLt(FloatOfRatio(10, 1),
            FloatProduct(FloatOfRatio(Abs(latest_cost - previous_cost), previous_cost),
                         FloatOfRatio(100, 1)))

\* lines 216-223 and 227-231: the alert of one drug, if any, and the wording
\* it is shown with
Alert(drug, latest_cost, previous_cost) ==
    IF previous_cost > 0 /\ Significant(latest_cost, previous_cost)
    THEN <<[drug |-> drug, latest_cost |-> latest_cost,
            previous_cost |-> previous_cost,
            shown |-> IF latest_cost > previous_cost THEN "increase" ELSE "decrease"]>>
    ELSE <<>>

DrugAlert(drug, drug_data, latest_month) ==
    Alert(drug, SumOf(latest_window(drug_data, latest_month), "actual_cost"),
          SumOf(previous_window(drug_data, latest_month), "actual_cost"))

RECURSIVE AlertsOf(_, _, _)
\* lines 209-223: the loop over the drugs
AlertsOf(rows, drugs, latest_month) ==
    IF drugs = <<>> THEN <<>>
    ELSE DrugAlert(Head(drugs),
                   SelectSeq(rows, LAMBDA r : r.drug_name = Head(drugs)),
                   latest_month)
         \o AlertsOf(rows, Tail(drugs), latest_month)

\* lines 202-223
cost_alerts(rows) == AlertsOf(rows, unique(rows, "drug_name"), latest_date(rows))

\* lines 146-238: the High-Cost Drug Monitor: the figures, then the alerts;
\* the charts between them raise nothing
HighCostDrugMonitor(high_cost_df) ==
    IF Raised(high_cost_df) THEN Page(high_cost_df.exc, FALSE, EmptyDict)
    ELSE IF empty(high_cost_df.val) THEN Page("none", FALSE, EmptyDict)
    ELSE IF "actual_cost" \notin high_cost_df.val.cols THEN Page("KeyError", TRUE, EmptyDict)
    ELSE LET rows == high_cost_df.val.rows
             total_cost == SumOf(rows, "actual_cost")
             total_items == SumOf(rows, "items")
         IN  IF "items" \notin high_cost_df.val.cols
             THEN Page("KeyError", TRUE, "Total Annual Cost" :> total_cost)
             ELSE Page("none", TRUE,
                       ("Total Annual Cost" :> total_cost)
                       @@ ("Total Items" :> total_items)
                       @@ ("Avg Cost per Item" :> PerItemGuarded(total_cost, total_items))
                       @@ ("Drugs Monitored" :>
                             Cardinality({rows[i].drug_name : i \in 1..Len(rows)}))
                       @@ ("alerts" :> cost_alerts(rows)))

\* lines 266-282: the savings figures of a series of 12 periods or more whose
\* recent average lies below the baseline
Savings(rows) ==
    LET recent_avg == MeanOf(tail(rows, 6), "actual_cost")
        baseline_avg == MeanOf(head(rows, 6), "actual_cost")
        savings == RSub(baseline_avg, recent_avg)
    IN  IF Len(rows) >= 12 /\ RLess(recent_avg, baseline_avg)
        THEN ("Monthly Savings" :>
                [value |-> savings,
                 delta |-> Times100(FloatDiv(savings, baseline_avg))])
             @@ ("Projected Annual Savings" :> RMul(savings, Whole(12)))
        ELSE EmptyDict

\* lines 240-307: the Biosimilar Adoption Tracker; px.line refuses a frame
\* without the y column
BiosimilarAdoptionTracker(biosimilar_df) ==
    IF Raised(biosimilar_df) THEN Page(biosimilar_df.exc, FALSE, EmptyDict)
    ELSE IF empty(biosimilar_df.val) THEN Page("none", FALSE, EmptyDict)
    ELSE IF "actual_cost" \notin biosimilar_df.val.cols THEN Page("ValueError", TRUE, EmptyDict)
    ELSE LET rows == biosimilar_df.val.rows
             latest_cost == rows[Len(rows)].actual_cost
             latest_items == rows[Len(rows)].items
             first == Savings(rows) @@ ("Latest Monthly Cost" :> latest_cost)
         IN  IF "items" \notin biosimilar_df.val.cols THEN Page("KeyError", TRUE, first)
             ELSE Page("none", TRUE,
                       first
                       @@ ("Latest Monthly Items" :> latest_items)
                       @@ ("Cost per Item" :> PerItemGuarded(latest_cost, latest_items)))

\* the float64 comparison x < y
FloatLess(x, y) ==
    IF x.k = "nan" \/ y.k = "nan" THEN FALSE
    ELSE IF x.k = "fin" /\ y.k = "fin" THEN RLess(x.v, y.v)
    ELSE IF x.k = y.k THEN FALSE
    ELSE x.k = "-inf" \/ y.k = "inf"

\* f * r for a positive r
FloatTimes(f, r) == IF f.k = "fin" THEN Fin(RMul(f.v, r)) ELSE f

\* Series.mean() of float64 values: not-a-numbers are skipped
FloatMean(values) ==
    LET numbers == SelectSeq(values, LAMBDA f : f.k # "nan")
        kinds == {numbers[i].k : i \in 1..Len(numbers)}
    IN  IF numbers = <<>> \/ {"inf", "-inf"} \subseteq kinds THEN NaN
        ELSE IF "inf" \in kinds THEN Inf
        ELSE IF "-inf" \in kinds THEN NegInf
        ELSE Fin(RMul(RSum([i \in 1..Len(numbers) |-> numbers[i].v], 1..Len(numbers)),
                      Rat(1, Len(numbers))))

\* line 326: icb_summary['actual_cost'] / icb_summary['items'], element by
\* element on float64
cost_per_item(summary) ==
    [j \in 1..Len(summary) |->
        FloatDiv(Whole(summary[j].actual_cost), Whole(summary[j].items))]

\* the k-th smallest summed cost
KthCost(summary, k) ==
    CHOOSE c \in {summary[j].actual_cost : j \in 1..Len(summary)} :
        /\ Cardinality({j \in 1..Len(summary) : summary[j].actual_cost < c}) < k
        /\ Cardinality({j \in 1..Len(summary) : summary[j].actual_cost <= c}) >= k

\* four times the q-th quartile edge, interpolated linearly as Series.quantile does
QuartileEdge(summary, q) ==
    LET at == q * (Len(summary) - 1)
        lo == (at \div 4) + 1
    IN  IF at % 4 = 0 THEN 4 * KthCost(summary, lo)
        ELSE 4 * KthCost(summary, lo)
             + (at % 4) * (KthCost(summary, lo + 1) - KthCost(summary, lo))

\* line 373: pd.qcut(..., 4, labels=...) raises when two bin edges coincide
qcut_raises(summary) ==
    \E q \in 0..3 : QuartileEdge(summary, q) >= QuartileEdge(summary, q + 1)

\* lines 348-368: the figures of the Performance Metrics column
PerformanceMetrics(summary, per_item) ==
    LET avg_cost_per_item == FloatMean(per_item)
        efficient_icbs ==
            {j \in 1..Len(summary) :
                FloatLess(per_item[j], FloatTimes(avg_cost_per_item, Rat(9, 10)))}
        most == CHOOSE j \in efficient_icbs :
                    \A k \in efficient_icbs \ {j} :
                        \/ FloatLess(per_item[j], per_item[k])
                        \/ (~FloatLess(per_item[k], per_item[j]) /\ j < k)
    IN  ("cost_per_item" :> per_item)
        @@ ("Average ICB Cost" :> MeanOf(summary, "actual_cost"))
        @@ ("Median ICB Cost" :> median(summary))
        @@ ("Efficient ICBs" :> Cardinality(efficient_icbs))
        @@ ("Avg Cost per Item" :> avg_cost_per_item)
        @@ (IF efficient_icbs # {}
            THEN "Most efficient" :> summary[most].row_name
            ELSE EmptyDict)

\* lines 309-386: the ICB Performance Comparison
ICBPerformanceComparison(icb_df) ==
    IF Raised(icb_df) THEN Page(icb_df.exc, FALSE, EmptyDict)
    ELSE IF empty(icb_df.val) \/ "row_name" \notin icb_df.val.cols
    THEN Page("none", FALSE, EmptyDict)
    ELSE IF ~({"actual_cost", "items"} \subseteq icb_df.val.cols)
    THEN Page("KeyError", TRUE, EmptyDict)
    ELSE LET summary == icb_summary(icb_df.val)
         IN  Page(IF qcut_raises(summary) THEN "ValueError" ELSE "none", TRUE,
                  PerformanceMetrics(summary, cost_per_item(summary)))

(***************************************************************************)
(* SpecDashboard: one run of the Analytics Dashboard page for each         *)
(* dashboard type, on a fresh cache, over sources that hold records with   *)
(* zero items and zero cost.                                               *)
(***************************************************************************)
ZeroItems(rows) == [i \in 1..Len(rows) |-> [rows[i] EXCEPT !.items = 0]]

LastZeroItems(rows) ==
    [i \in 1..Len(rows) |-> IF i = Len(rows) THEN [rows[i] EXCEPT !.items = 0] ELSE rows[i]]

\* the last series end in March, where February lies within 30 days of the
\* latest month, and rise or fall in their last period
DashboardSeries ==
    {Series(n, ThisMonth - 2, 120, 100, 7) : n \in {0, 1, 13}}
    \cup {Series(13, ThisMonth - 10, a, b, 13) : a, b \in {0, 100, 105, 150}}
    \cup {Series(13, ThisMonth - 2, 100, 150, 13)}
    \cup {ZeroItems(Series(n, ThisMonth - 2, 120, 100, 7)) : n \in {1, 13}}
    \cup {LastZeroItems(Series(13, ThisMonth - 2, 120, 100, 7))}

DashboardSpending ==
    {RecordsBody(TrendKeys, s) : s \in DashboardSeries}
    \cup {RecordsBody(keys, Series(13, ThisMonth - 2, 120, 100, 7)) :
            keys \in {TrendKeys \ {"actual_cost"}, TrendKeys \ {"items"},
                      TrendKeys \ {"date"}}}
    \cup {[shape |-> "object", keys |-> {"detail"}, rows |-> <<>>,
           dates_parse |-> TRUE]}

DashboardRegionNames ==
    { <<"L","e","e","d","s">>, <<"Y","o","r","k">>, <<"K","e","n","t">> }

ItemCounts == {0, 7}

\* two periods for every region: cost[name] and items[name] in the latest
\* period, a fifth of the cost and the same items the period before
DashboardRegionRows(names, cost, items, last) ==
    [i \in 1..(2 * Len(names)) |->
        LET name == names[((i - 1) % Len(names)) + 1]
        IN  [date |-> IF i <= Len(names) THEN last ELSE last - 1,
             actual_cost |-> IF i <= Len(names) THEN cost[name]
                             ELSE cost[name] \div 5,
             items |-> items[name],
             row_name |-> name]]

DashboardByOrg ==
    UNION {{RecordsBody(OrgKeys,
                        DashboardRegionRows(SortedNames(S), cost, items, ThisMonth - 2)) :
                cost \in [S -> Costs], items \in [S -> ItemCounts]} :
           S \in {T \in SUBSET DashboardRegionNames : Cardinality(T) \in 1..MaxRegions}}
    \cup {RecordsBody(OrgKeys \ {"items"},
                      DashboardRegionRows(SortedNames(DashboardRegionNames),
                                          [name \in DashboardRegionNames |-> 100],
                                          [name \in DashboardRegionNames |-> 7],
                                          ThisMonth - 2))}

DashboardWorlds ==
    DownWorlds
    \cup {[net |-> "ok", known |-> known, spending |-> body, by_org |-> EmptyListBody] :
            known \in {{Adalimumab}, Range(high_cost_drugs)},
            body \in DashboardSpending}
    \cup {[net |-> "ok", known |-> {Adalimumab},
           spending |-> EmptyListBody, by_org |-> body] :
            body \in DashboardByOrg}

InitDashboard ==
    /\ pc = "start"
    /\ query = <<>>
    /\ world \in DashboardWorlds
    /\ now = Noon15
    /\ matches = NotCalled
    /\ fetched = NotCalled
    /\ analysis = NotCalled
    /\ session = NoSession
    /\ page_run = NotRun
    /\ cache = NoCache
    /\ returned = <<>>
    /\ dashboard = NotCalled
    /\ upload = NotCalled
    /\ sent = <<>>
    /\ payload = NotCalled

\* line 20, and lines 154-155, 248-249, 317-318 where the frame is stored
EndDashboard(dashboard_type, df, page) ==
    /\ pc' = dashboard_type
    /\ dashboard' = page
    /\ session' =
         (IF page.stored
          THEN ("dashboard_data" :> df.val) @@ ("dashboard_type" :> dashboard_type)
          ELSE EmptyDict)
         @@ ("current_page" :> "Analytics Dashboard - NHS Prescribing Analytics")
         @@ session
    /\ UNCHANGED <<query, world, now, matches, fetched, analysis, page_run,
                   cache, returned, upload, sent, payload>>

SelectHighCostDrugMonitor ==
    /\ pc = "start"
    /\ EndDashboard("High-Cost Drug Monitor",
                    get_high_cost_drugs_data(world, now),
                    HighCostDrugMonitor(get_high_cost_drugs_data(world, now)))

SelectBiosimilarAdoptionTracker ==
    /\ pc = "start"
    /\ EndDashboard("Biosimilar Adoption Tracker",
                    get_biosimilar_analysis(world, now),
                    BiosimilarAdoptionTracker(get_biosimilar_analysis(world, now)))

SelectICBPerformanceComparison ==
    /\ pc = "start"
    /\ EndDashboard("ICB Performance Comparison",
                    get_icb_performance_data(world, now),
                    ICBPerformanceComparison(get_icb_performance_data(world, now)))

\* lines 388-416: a placeholder text
SelectPrescribingPatternsAnalysis ==
    /\ pc = "start"
    /\ EndDashboard("Prescribing Patterns Analysis", Ret(EmptyDataFrame),
                    Page("none", FALSE, EmptyDict))

NextDashboard ==
    \/ SelectHighCostDrugMonitor
    \/ SelectBiosimilarAdoptionTracker
    \/ SelectICBPerformanceComparison
    \/ SelectPrescribingPatternsAnalysis

SpecDashboard == InitDashboard /\ [][NextDashboard]_vars

\* the per-item costs among the figures of a run
PerItemCosts ==
    {dashboard.shown[f] : f \in {"Avg Cost per Item", "Cost per Item"} \cap DOMAIN dashboard.shown}
    \cup (IF "cost_per_item" \in DOMAIN dashboard.shown
          THEN Range(dashboard.shown["cost_per_item"])
          ELSE {})

\* C16: a zero item count never makes a per-item cost calculation raise or
\* yield an infinite value: no run ends in a division by zero, and no per-item
\* cost among the totals, the latest-month figure and the per-region figures
\* is infinite.
C16_PerItemCostNeverInfinite ==
    pc # "start" =>
        /\ dashboard.exc # "ZeroDivisionError"
        /\ \A c \in PerItemCosts : c.k \notin {"inf", "-inf"}

(***************************************************************************)
(* Claims about the narrative context a run of the page stores.            *)
(***************************************************************************)
\* the five data sections of a context
DataSections(context) ==
    {context.spending_trends, context.regional_analysis, context.seasonal_patterns,
     context.related_drugs, context.data_sources}

\* no line of the section carries a value
WithoutData(section) == \A i \in 1..Len(section) : section[i].args = <<>>

\* a line of the section is a fixed, non-empty text
SaysNotAvailable(section) ==
    \E i \in 1..Len(section) : section[i].text # "" /\ section[i].args = <<>>

\* C17: in a stored context every section among spending trend, regional
\* analysis, seasonal patterns, related drugs and data sources that has no
\* data holds an explicit line saying so; none is left empty.
C17_EverySectionWithoutDataSaysSo ==
    Has(session, "comprehensive_context") =>
        \A section \in DataSections(session.comprehensive_context) :
            WithoutData(section) => SaysNotAvailable(section)

\* the last run searched for "adalimumab"
AdalimumabSearched ==
    /\ page_run # NotRun
    /\ matches # NotCalled
    /\ Has(session, "current_drug") /\ session.current_drug = Adalimumab

NoNetwork == world.net \in {"unreachable", "timeout"}

\* the three lines that stand for a section without data
NotAvailableLines ==
    {Line("- No trend data available", <<>>),
     Line("- No regional data available", <<>>),
     Line("- Insufficient data for seasonal analysis", <<>>)}

\* C18: the query "adalimumab" resolves to code 0212000AA with category "TNF
\* Alpha Inhibitor"; without a network both fetched record sets are empty, the
\* analysis has no trend, regional or seasonal field, and the stored context
\* holds the drug-identity block and the three "not available" lines.
C18_AdalimumabOffline ==
    AdalimumabSearched =>
        /\ ~Raised(matches) /\ matches.val # <<>>
        /\ matches.val[1].code = <<"0","2","1","2","0","0","0","A","A">>
        /\ matches.val[1].category = "TNF Alpha Inhibitor"
        /\ NoNetwork =>
            /\ get_total_spending_trend(world, now, matches.val[1].code, StrArg)
                    = Ret(EmptyDataFrame)
            /\ get_drug_spending_by_icb(world, now, matches.val[1].code, IntArg(12))
                    = Ret(EmptyDataFrame)
            /\ ~Raised(analysis)
            /\ {"trend_data", "regional_data", "seasonal_patterns"} \cap DOMAIN analysis.val = {}
            /\ Has(session, "comprehensive_context")
            /\ session.current_drug_analysis = analysis.val
            /\ session.comprehensive_context.title
                    = Line("Comprehensive Analysis for {}:", <<Title(Adalimumab)>>)
            /\ session.comprehensive_context.drug_information
                    = << Line("- BNF Code: {}", <<matches.val[1].code>>),
                         Line("- Category: {}", <<"TNF Alpha Inhibitor">>),
                         Line("- BNF Chapter: {} - {}",
                              <<<<"0", "2">>, "Cardiovascular System">>) >>
            /\ session.comprehensive_context.spending_trends[1]
                    = Line("- No trend data available", <<>>)
            /\ session.comprehensive_context.regional_analysis[1]
                    = Line("- No regional data available", <<>>)
            /\ session.comprehensive_context.seasonal_patterns[1]
                    = Line("- Insufficient data for seasonal analysis", <<>>)

\* "adalimumab" was searched without a network and the run stored a context
C18_Witness ==
    /\ AdalimumabSearched
    /\ NoNetwork
    /\ page_run.stored
    /\ Has(session, "comprehensive_context")
    /\ NotAvailableLines \subseteq
          {session.comprehensive_context.spending_trends[1],
           session.comprehensive_context.regional_analysis[1],
           session.comprehensive_context.seasonal_patterns[1]}

(***************************************************************************)
(* The Upload & Process page (src/pages/04_..._Upload_Process.py):         *)
(* analyze_epact_data on an uploaded table.  A table is its columns in     *)
(* order, each a name and the kind of values it holds, and its number of   *)
(* rows; cell values are not represented.                                  *)
(***************************************************************************)
\* most columns in an uploaded table
MaxColumns == 4

\* lines 67, 81 and 94: the keywords of the three roles
date_words == <<<<"d","a","t","e">>, <<"m","o","n","t","h">>, <<"p","e","r","i","o","d">>>>

cost_words == <<<<"c","o","s","t">>, <<"s","p","e","n","d">>, <<"a","m","o","u","n","t">>, <<"v","a","l","u","e">>>>

drug_words == <<<<"d","r","u","g">>, <<"p","r","o","d","u","c","t">>, <<"i","t","e","m">>, <<"m","e","d","i","c","i","n","e">>, <<"b","n","f">>>>

\* [col for col in df.columns if any(word in col.lower() for word in words)]
\* with the names compared as they are written
role_columns_CaseSensitive(df, words) ==
    SelectSeq(df.columns,
              LAMBDA col : \E i \in 1..Len(words) : IsSubstr(words[i], col.name))

\* [col for col in df.columns if any(word in col.lower() for word in words)]
role_columns(df, words) ==
    SelectSeq(df.columns,
              LAMBDA col : \E i \in 1..Len(words) : IsSubstr(words[i], Lower(col.name)))

None == [is_none |-> TRUE]

\* line 70: df[name] = pd.to_datetime(df[name], errors='coerce')
ToDatetime(df, name) ==
    [df EXCEPT !.columns =
        [i \in 1..Len(@) |-> IF @[i].name = name THEN [@[i] EXCEPT !.kind = "datetime"]
                             ELSE @[i]]]

\* lines 84-85: .sum() and .mean() succeed on numbers and on a column without
\* values; on text .mean() raises and on datetimes .sum() raises
Summable(df, col) ==
    \/ col.kind = "number"
    \/ col.kind = "text" /\ df.rows = 0

\* lines 66-77: errors='coerce' turns what does not parse into NaT
date_range(df, date_columns) ==
    IF date_columns = <<>> THEN None ELSE [column |-> date_columns[1].name]

\* lines 80-90: the bare except leaves cost_summary as it was
cost_summary(df, cost_columns) ==
    IF cost_columns = <<>> THEN None
    ELSE IF ~Summable(df, cost_columns[1]) THEN None
    ELSE [column |-> cost_columns[1].name]

\* lines 93-102
top_drugs(df, drug_columns) ==
    IF drug_columns = <<>> THEN None ELSE [column |-> drug_columns[1].name]

\* lines 66-70: the table after the date column was converted in place
Converted(df, date_columns) ==
    IF date_columns = <<>> THEN df ELSE ToDatetime(df, date_columns[1].name)

\* lines 55-111, without the data_quality counts
analyze_epact_data(df) ==
    [row_count |-> df.rows,
     columns |-> [i \in 1..Len(df.columns) |-> df.columns[i].name],
     date_range |-> date_range(df, role_columns(df, date_words)),
     cost_summary |-> cost_summary(Converted(df, role_columns(df, date_words)),
                                   role_columns(Converted(df, role_columns(df, date_words)),
                                                cost_words)),
     top_drugs |-> top_drugs(df, role_columns(df, drug_words))]

(***************************************************************************)
(* SpecUpload: analyze_epact_data applied to every table of up to          *)
(* MaxColumns distinct columns from a pool of names.                       *)
(***************************************************************************)
PrescriptionDate == [name |-> <<"P","r","e","s","c","r","i","p","t","i","o","n"," ","D","a","t","e">>, kind |-> "text"]

DrugName == [name |-> <<"D","r","u","g"," ","N","a","m","e">>, kind |-> "text"]

NetIngredientCost == [name |-> <<"N","e","t"," ","I","n","g","r","e","d","i","e","n","t"," ","C","o","s","t">>, kind |-> "number"]

Items == [name |-> <<"I","t","e","m","s">>, kind |-> "number"]

ColumnPool ==
    {PrescriptionDate, DrugName, NetIngredientCost, Items,
     [name |-> <<"V","a","l","u","e"," ","D","a","t","e">>, kind |-> "text"],
     [name |-> <<"C","o","s","t"," ","C","e","n","t","r","e">>, kind |-> "text"],
     [name |-> <<"P","r","a","c","t","i","c","e">>, kind |-> "text"]}

RECURSIVE Arrangements(_, _)
\* the sequences of at most n distinct elements of S
Arrangements(S, n) ==
    IF n = 0 THEN {<<>>}
    ELSE {<<>>} \cup UNION {{<<c>> \o rest : rest \in Arrangements(S \ {c}, n - 1)} : c \in S}

RowCounts == {0, 3}

Tables ==
    {[columns |-> cols, rows |-> n] :
        cols \in Arrangements(ColumnPool, MaxColumns), n \in RowCounts}

InitUpload ==
    /\ pc = "start"
    /\ query = <<>>
    /\ world \in {w \in DownWorlds : w.net = "unreachable"}
    /\ now = Noon15
    /\ matches = NotCalled
    /\ fetched = NotCalled
    /\ analysis = NotCalled
    /\ session = NoSession
    /\ page_run = NotRun
    /\ cache = NoCache
    /\ returned = <<>>
    /\ dashboard = NotCalled
    /\ upload \in {[exc |-> "not called", val |-> <<>>, given |-> df, df |-> df] :
                      df \in Tables}
    /\ sent = <<>>
    /\ payload = NotCalled

\* lines 214-217: the table is analysed and the analysis stored
AnalyzeUpload ==
    /\ pc = "start"
    /\ pc' = "analyze_epact_data"
    /\ upload' = [exc |-> "none",
                  val |-> analyze_epact_data(upload.df),
                  given |-> upload.given,
                  df |-> Converted(upload.df, role_columns(upload.df, date_words))]
    /\ session' = SetKey(session, "epact_analysis", analyze_epact_data(upload.df))
    /\ UNCHANGED <<query, world, now, matches, fetched, analysis, page_run,
                   cache, returned, dashboard, sent, payload>>

NextUpload == AnalyzeUpload

SpecUpload == InitUpload /\ [][NextUpload]_vars
Analyzed == pc = "analyze_epact_data"

\* the position of the first column of the uploaded table, in table order,
\* whose lower-cased name contains one of the words; 0 if there is none
FirstNamed(words) ==
    LET named == {i \in 1..Len(upload.given.columns) :
                    \E w \in Range(words) :
                        IsSubstr(w, Lower(upload.given.columns[i].name))}
    IN  IF named = {} THEN 0 ELSE CHOOSE i \in named : \A j \in named : i <= j

\* a role that is reported names the first column whose name carries one of
\* its words, and no role is reported without such a column
PicksFirstNamed(reported, words) ==
    /\ FirstNamed(words) = 0 => reported = None
    /\ reported # None =>
          /\ FirstNamed(words) # 0
          /\ reported.column = upload.given.columns[FirstNamed(words)].name

SampleColumns == <<PrescriptionDate, DrugName, NetIngredientCost, Items>>

\* C19: analyze_epact_data picks for each role (date, cost, drug) the first
\* column in table order whose lower-cased name contains one of the role's
\* keywords: a date or drug column is reported whenever one is named, a cost
\* column whenever the first one named holds numbers.  For the columns
\* Prescription Date, Drug Name, Net Ingredient Cost, Items it reports a date,
\* a cost and a drug column, and row_count is the number of rows of the table.
C19_FirstNamedColumnPerRole ==
    Analyzed =>
        /\ upload.val.row_count = upload.given.rows
        /\ PicksFirstNamed(upload.val.date_range, date_words)
        /\ PicksFirstNamed(upload.val.cost_summary, cost_words)
        /\ PicksFirstNamed(upload.val.top_drugs, drug_words)
        /\ FirstNamed(date_words) # 0 => upload.val.date_range # None
        /\ FirstNamed(drug_words) # 0 => upload.val.top_drugs # None
        /\ (/\ FirstNamed(cost_words) # 0
            /\ upload.given.columns[FirstNamed(cost_words)].kind = "number") =>
                upload.val.cost_summary # None
        /\ upload.given.columns = SampleColumns =>
              /\ upload.val.date_range = [column |-> PrescriptionDate.name]
              /\ upload.val.cost_summary = [column |-> NetIngredientCost.name]
              /\ upload.val.top_drugs = [column |-> DrugName.name]

\* the table with the sample columns was analysed: three rows, and a date, a
\* cost and a drug column reported
C19_Witness ==
    /\ Analyzed
    /\ upload.given.columns = SampleColumns
    /\ upload.val.row_count = 3
    /\ upload.val.date_range # None
    /\ upload.val.cost_summary # None
    /\ upload.val.top_drugs # None

(***************************************************************************)
(* The assistant sidebar (src/utils/claude_integration.py): the chat       *)
(* history kept in st.session_state.claude_chat_history.                   *)
(***************************************************************************)
\* line 127: the exchanges kept
HistoryCap == 10

\* how many times Send is pressed in a session
MaxSends == 11

\* lines 36-44: context["current_data_summary"] without a stored analysis
current_data_summary(state) ==
    LET searched == Has(state, "search_performed") /\ state.search_performed
    IN  IF Has(state, "current_drug")
        THEN Line(IF searched
                  THEN "User is viewing data for {} - Search was performed"
                  ELSE "User is viewing data for {}",
                  <<state.current_drug>>)
        ELSE Line(IF searched THEN "No data visible - Search was performed"
                  ELSE "No data visible",
                  <<>>)

\* lines 20-80: the page context of a session that holds no DataFrame; the
\* narrative context, once stored, is the entry comprehensive_analysis
get_page_context(state, t) ==
    [timestamp |-> t,
     page |-> IF Has(state, "current_page") THEN state.current_page ELSE "Unknown",
     data_displayed |-> "None",
     charts_visible |-> <<>>,
     user_selections |->
        (IF Has(state, "current_drug") THEN "drug" :> state.current_drug ELSE EmptyDict)
        @@ (IF Has(state, "search_performed") /\ state.search_performed
            THEN "search_performed" :> TRUE
            ELSE EmptyDict),
     current_data_summary |->
        IF Has(state, "comprehensive_context")
        THEN Line("Comprehensive drug analysis with 3-year trends, regional benchmarking, and seasonal patterns available", <<>>)
        ELSE current_data_summary(state)]
    @@ (IF Has(state, "comprehensive_context")
        THEN "comprehensive_analysis" :> state.comprehensive_context
        ELSE EmptyDict)

\* lines 108-112
get_chat_history(state) ==
    IF Has(state, "claude_chat_history") THEN state.claude_chat_history ELSE <<>>

\* chat_history[-n:]
Recent(chat_history, n) ==
    SubSeq(chat_history,
           IF Len(chat_history) < n THEN 1 ELSE Len(chat_history) - n + 1,
           Len(chat_history))

\* a payload that carries the five exchanges the sidebar displays
messages_LastFive(context, chat_history, user_message) ==
    [system |-> "create_system_prompt",
     page |-> context.page,
     user_selections |-> context.user_selections,
     data_displayed |-> context.data_displayed,
     recent_chat_history |-> Recent(chat_history, 5),
     user_question |-> user_message]

\* lines 141-170: what client.messages.create is called with: the system
\* prompt and one user message made of three entries of the page context, the
\* last three exchanges and the question
messages(context, chat_history, user_message) ==
    [system |-> "create_system_prompt",
     page |-> context.page,
     user_selections |-> context.user_selections,
     data_displayed |-> context.data_displayed,
     recent_chat_history |-> Recent(chat_history, 3),
     user_question |-> user_message]

\* how client.messages.create ends: it raises, or answers with a text
ApiError == [raises |-> TRUE, text |-> ""]

Reply(text) == [raises |-> FALSE, text |-> text]

\* an add that keeps the oldest exchanges: history[:10]
add_to_chat_history_KeepOldest(state, t, user_message, claude_response) ==
    LET appended ==
            Append(IF Has(state, "claude_chat_history") THEN state.claude_chat_history
                   ELSE <<>>,
                   [timestamp |-> t, user |-> user_message, claude |-> claude_response,
                    context |-> get_page_context(state, t)])
    IN  SetKey(state, "claude_chat_history",
               IF Len(appended) > HistoryCap THEN SubSeq(appended, 1, HistoryCap)
               ELSE appended)

\* lines 114-128
add_to_chat_history(state, t, user_message, claude_response) ==
    LET appended ==
            Append(IF Has(state, "claude_chat_history") THEN state.claude_chat_history
                   ELSE <<>>,
                   [timestamp |-> t, user |-> user_message, claude |-> claude_response,
                    context |-> get_page_context(state, t)])
    IN  SetKey(state, "claude_chat_history",
               IF Len(appended) > HistoryCap
               THEN SubSeq(appended, Len(appended) - HistoryCap + 1, Len(appended))
               ELSE appended)

\* a query that records the exchange of a failed call as well
query_claude_RecordsFailures(state, t, user_message, api) ==
    IF state.claude_client = "None"
    THEN [state |-> state, response |-> "Claude is not available", added |-> FALSE,
          payload |-> NotCalled]
    ELSE [state |-> add_to_chat_history(state, t, user_message,
                                        IF api.raises THEN "Error querying Claude"
                                        ELSE api.text),
          response |-> IF api.raises THEN "Error querying Claude" ELSE api.text,
          added |-> TRUE,
          payload |-> messages(get_page_context(state, t), get_chat_history(state),
                               user_message)]

\* lines 130-180: the session after the query, what the query returns and
\* what it handed to the service; api is how client.messages.create ends
query_claude(state, t, user_message, api) ==
    IF state.claude_client = "None"
    THEN [state |-> state, response |-> "Claude is not available", added |-> FALSE,
          payload |-> NotCalled]
    ELSE IF api.raises
    THEN [state |-> state, response |-> "Error querying Claude", added |-> FALSE,
          payload |-> messages(get_page_context(state, t), get_chat_history(state),
                               user_message)]
    ELSE [state |-> add_to_chat_history(state, t, user_message, api.text),
          response |-> api.text, added |-> TRUE,
          payload |-> messages(get_page_context(state, t), get_chat_history(state),
                               user_message)]

UserMessages == {"Why is spending increasing?", "Which ICB spends most?"}

\* the session after the first render of the sidebar: lines 189-190 set the
\* client (None without an API key) and line 212 creates the history
InitChat ==
    /\ pc = "sidebar"
    /\ query = <<>>
    /\ world \in {w \in DownWorlds : w.net = "unreachable"}
    /\ now = Noon15
    /\ matches = NotCalled
    /\ fetched = NotCalled
    /\ analysis = NotCalled
    /\ session \in {("claude_client" :> c) @@ ("claude_chat_history" :> <<>>) :
                       c \in {"None", "client"}}
    /\ page_run = NotRun
    /\ cache = NoCache
    /\ returned = <<>>
    /\ dashboard = NotCalled
    /\ upload = NotCalled
    /\ sent = <<>>
    /\ payload = NotCalled

\* lines 200-203: the query is made and its answer stored
Answered(result) ==
    /\ session' = SetKey(result.state, "claude_latest_response", result.response)
    /\ sent' = IF result.added
               THEN Append(sent, result.state.claude_chat_history[
                                    Len(result.state.claude_chat_history)])
               ELSE sent
    /\ payload' = result.payload
    /\ now' = now + 1
    /\ pc' = "query_claude"
    /\ UNCHANGED <<query, world, matches, fetched, analysis, page_run,
                   cache, returned, dashboard, upload>>

\* the Send button with a text in the input box
Send ==
    /\ now < Noon15 + MaxSends
    /\ \E user_input \in UserMessages, api \in {ApiError, Reply("reply")} :
          Answered(query_claude(session, now, user_input, api))

\* lines 225-229: the Clear Chat button
ClearChat ==
    /\ session' = [key \in DOMAIN session \ {"claude_latest_response"} |->
                      IF key = "claude_chat_history" THEN <<>> ELSE session[key]]
    /\ sent' = <<>>
    /\ pc' = "sidebar"
    /\ UNCHANGED <<query, world, now, matches, fetched, analysis, page_run,
                   cache, returned, dashboard, upload, payload>>

NextChat == Send \/ ClearChat

SpecChat == InitChat /\ [][NextChat]_vars

Min(a, b) == IF a < b THEN a ELSE b

\* C20: the history never holds more than 10 exchanges, and after n completed
\* exchanges since the last clear it is exactly the last min(n, 10) of them,
\* unchanged and in the order they arrived.
C20_HistoryIsLastTenInOrder ==
    /\ Len(session.claude_chat_history) <= 10
    /\ session.claude_chat_history
          = SubSeq(sent, Len(sent) - Min(Len(sent), 10) + 1, Len(sent))

\* an eleventh exchange arrived and the oldest one was dropped
C20_Witness ==
    /\ Len(sent) = 11
    /\ Len(session.claude_chat_history) = 10
    /\ session.claude_chat_history[1] = sent[2]
    /\ session.claude_chat_history[10] = sent[11]

(***************************************************************************)
(* SpecTurn: the assistant beside the search page.  Each run of the page   *)
(* renders the sidebar first (lines 19-23 of the page) and then the search *)
(* block, so a question is answered from what earlier runs left in the     *)
(* session.                                                                *)
(***************************************************************************)
MaxTurns == 2

\* the texts the service answers with
Replies == {"Spending rose by 12%", "No data is visible"}

\* the drugs the user looks at between questions
ViewedDrugs ==
    { <<"a","d","a","l","i","m","u","m","a","b">>,
      <<"m","e","t","f","o","r","m","i","n">> }

\* line 19 of the page
ConsolidatedView(state) ==
    SetKey(state, "current_page", "Consolidated View - NHS Drug Data Explorer")

\* the Send button: lines 200-203 of the sidebar
Ask ==
    /\ now < Noon15 + MaxTurns
    /\ \E user_input \in UserMessages, api \in {ApiError} \cup {Reply(r) : r \in Replies} :
          Answered(query_claude(session, now, user_input, api))

\* a quick-search button of the page: the run stores the analysis and the
\* narrative context of the drug
ViewDrug ==
    \E d \in ViewedDrugs : RunPage(ConsolidatedView(session), query, d)

NextTurn == Ask \/ ViewDrug \/ ClearChat

SpecTurn == InitChat /\ [][NextTurn]_vars

\* the narrative contexts a payload carries
Carried(p) ==
    {p.recent_chat_history[i].context.comprehensive_analysis :
        i \in {j \in 1..Len(p.recent_chat_history) :
                  Has(p.recent_chat_history[j].context, "comprehensive_analysis")}}

\* a question was handed to the service
Asked == pc = "query_claude" /\ Has(payload, "user_question")

\* C21: every payload handed to the service while the session holds a
\* narrative context carries that context, beside the window of earlier
\* exchanges.
C21_PayloadCarriesNarrativeContext ==
    (Asked /\ Has(session, "comprehensive_context"))
        => session.comprehensive_context \in Carried(payload)

\* the strings query_claude returns in place of an answer (lines 133 and 180)
FailureMessages == {"Claude is not available", "Error querying Claude"}

\* how a call of the service can end
ApiOutcomes == {ApiError} \cup {Reply(r) : r \in Replies}

\* the session keys other than the history
OtherKeys(state) == [key \in DOMAIN state \ {"claude_chat_history"} |-> state[key]]

\* query_claude, called on this session, failed as the code says it fails
FailsQuietly(user_input, api, result) ==
    /\ result.state = session
    /\ result.response \in FailureMessages
    /\ ~result.added

\* query_claude, called on this session, stored one exchange: the history
\* is the old one (less its oldest entry when it was full) and then the
\* exchange of this question and this answer
StoresOne(user_input, api, result) ==
    LET before == session.claude_chat_history
        after == result.state.claude_chat_history
        kept == IF Len(before) = HistoryCap THEN Tail(before) ELSE before
    IN  /\ result.response = api.text
        /\ Len(after) = Len(kept) + 1
        /\ SubSeq(after, 1, Len(kept)) = kept
        /\ after[Len(after)].user = user_input
        /\ after[Len(after)].claude = api.text
        /\ OtherKeys(result.state) = OtherKeys(session)

\* C28: query_claude leaves the history as it was and returns a message
\* string when no client is configured or the call of the service raises; when
\* the service answers it appends exactly one exchange and returns the answer
\* text as it came.
C28_QueryClaudeFrame ==
    \A user_input \in UserMessages, api \in ApiOutcomes :
        IF session.claude_client = "None" \/ api.raises
        THEN FailsQuietly(user_input, api, query_claude(session, now, user_input, api))
        ELSE StoresOne(user_input, api, query_claude(session, now, user_input, api))

\* a question failed after an earlier one was answered, and the history still
\* ends with the answered one
C28_Witness ==
    /\ pc = "query_claude"
    /\ session.claude_latest_response = "Error querying Claude"
    /\ Len(session.claude_chat_history) = 1
    /\ session.claude_chat_history = sent
    /\ session.claude_chat_history[1].claude \in Replies

\* the last question was answered by the service
Answer == Asked /\ session.claude_latest_response \notin FailureMessages

\* the exchanges stored before the last question was asked
Prior == IF Answer THEN SubSeq(sent, 1, Len(sent) - 1) ELSE sent

\* C29: the payload of a turn holds the last three exchanges stored before
\* the question (all of them when there are fewer), in their order, and never
\* the exchange of the question itself, which is stored only once the service
\* has answered.
C29_PayloadHoldsLastThreeStored ==
    Asked =>
        /\ Len(payload.recent_chat_history) = Min(3, Len(Prior))
        /\ payload.recent_chat_history
              = SubSeq(Prior, Len(Prior) - Min(3, Len(Prior)) + 1, Len(Prior))
        /\ \A i \in 1..Len(payload.recent_chat_history) :
              payload.recent_chat_history[i].timestamp < now - 1
        /\ Answer => sent[Len(sent)].timestamp = now - 1

\* a fifth question was answered: its payload held the second, third and
\* fourth exchange
C29_Witness ==
    /\ Answer
    /\ Len(sent) = 5
    /\ payload.recent_chat_history = SubSeq(sent, 2, 4)

(***************************************************************************)
(* SpecPipeline: one request after another for the same drug, followed     *)
(* line by line through get_enhanced_drug_analysis (lines 174-265, default *)
(* window) and the store of the context (lines 533-569).  Every function   *)
(* on the way is wrapped in st.cache_data(ttl=3600).                       *)
(***************************************************************************)
\* the keys of the derived blocks
DerivedKeys == {"trend_data", "regional_data", "seasonal_patterns"}

\* the derived blocks the analysis holds so far
DerivedSoFar == IF Raised(analysis) THEN {} ELSE DerivedKeys \cap DOMAIN analysis.val

AnalysisKey == <<"get_enhanced_drug_analysis", query, 36>>

\* a cached fetch function calling the cached get_openprescribing_data: the
\* frame it returns, whether the remote source was asked, and the cache after
FetchThrough(fn, endpoint, months, frame) ==
    LET fn_key == <<fn, query, months>>
        data_key == <<"get_openprescribing_data", endpoint, query>>
        data == Cached(cache, data_key, now,
                       get_openprescribing_data(world, endpoint, query))
    IN  IF Fresh(cache, fn_key, now)
        THEN [outcome |-> Ret(cache[fn_key].value), remote |-> FALSE, cache |-> cache]
        ELSE [outcome |-> frame,
              remote |-> ~Fresh(cache, data_key, now),
              cache |-> Cached(data.cache, fn_key, now, frame).cache]

\* one fetch of the request, with the derived blocks computed before it
FetchLogged(fn, fetch) ==
    [fn |-> fn, outcome |-> fetch.outcome, remote |-> fetch.remote, after |-> DerivedSoFar]

\* the analysis so far, or the exception that left the function
Continue(step, position) ==
    /\ analysis' = step
    /\ pc' = IF Raised(step) THEN "raised" ELSE position

\* line 174: the decorator finds the analysis in the cache
AnalysisFromCache ==
    /\ pc = "start"
    /\ Fresh(cache, AnalysisKey, now)
    /\ analysis' = Ret(cache[AnalysisKey].value)
    /\ pc' = "returned"
    /\ UNCHANGED <<query, world, now, matches, fetched, session, page_run, cache,
                   returned, dashboard, upload, sent, payload>>

\* lines 177-184
FetchTrendStep ==
    /\ pc = "start"
    /\ ~Fresh(cache, AnalysisKey, now)
    /\ LET fetch == FetchThrough("get_total_spending_trend", "spending", 36,
                                 get_total_spending_trend(world, now, query, IntArg(36)))
       IN  /\ returned' = <<FetchLogged("get_total_spending_trend", fetch)>>
           /\ cache' = fetch.cache
           /\ Continue(IF Raised(fetch.outcome) THEN fetch.outcome
                       ELSE Ret([drug_name |-> query, analysis_date |-> now,
                                 data_sources |-> <<>>]),
                       "trend fetched")
    /\ UNCHANGED <<query, world, now, matches, fetched, session, page_run,
                   dashboard, upload, sent, payload>>

\* lines 185-211
DeriveTrendStep ==
    /\ pc = "trend fetched"
    /\ LET trend_df == returned[1].outcome.val
           trend == TrendBlock(trend_df)
       IN  Continue(IF Raised(trend) THEN trend
                    ELSE Ret(trend.val
                             @@ [analysis.val EXCEPT !.data_sources =
                                    DataSources(trend_df, EmptyDataFrame)]),
                    "trend derived")
    /\ UNCHANGED <<query, world, now, matches, fetched, session, page_run, cache,
                   returned, dashboard, upload, sent, payload>>

\* line 214
FetchRegionalStep ==
    /\ pc = "trend derived"
    /\ LET fetch == FetchThrough("get_drug_spending_by_icb", "spending_by_org", 12,
                                 get_drug_spending_by_icb(world, now, query, IntArg(12)))
       IN  /\ returned' = Append(returned, FetchLogged("get_drug_spending_by_icb", fetch))
           /\ cache' = fetch.cache
           /\ Continue(IF Raised(fetch.outcome) THEN fetch.outcome ELSE analysis,
                       "regional fetched")
    /\ UNCHANGED <<query, world, now, matches, fetched, session, page_run,
                   dashboard, upload, sent, payload>>

\* lines 215-246
DeriveRegionalStep ==
    /\ pc = "regional fetched"
    /\ LET icb_df == returned[2].outcome.val
           regional == RegionalBlock(icb_df)
       IN  Continue(IF Raised(regional) THEN regional
                    ELSE Ret(regional.val
                             @@ [analysis.val EXCEPT !.data_sources =
                                    DataSources(returned[1].outcome.val, icb_df)]),
                    "regional derived")
    /\ UNCHANGED <<query, world, now, matches, fetched, session, page_run, cache,
                   returned, dashboard, upload, sent, payload>>

\* lines 248-265: the seasonal block and the return, which the decorator caches
DeriveSeasonalStep ==
    /\ pc = "regional derived"
    /\ analysis' = Ret(analysis.val @@ SeasonalBlock(returned[1].outcome.val))
    /\ cache' = Cached(cache, AnalysisKey, now, analysis').cache
    /\ pc' = "returned"
    /\ UNCHANGED <<query, world, now, matches, fetched, session, page_run,
                   returned, dashboard, upload, sent, payload>>

\* lines 533-569: the page stores the analysis and builds the context
BuildContextStep ==
    /\ pc = "returned"
    /\ session' = Stored(session,
                         CHOOSE m \in Range(get_bnf_lookup) : m.code = query,
                         analysis.val)
    /\ pc' = "context"
    /\ UNCHANGED <<query, world, now, matches, fetched, analysis, page_run, cache,
                   returned, dashboard, upload, sent, payload>>

\* the user searches the same drug again, at once or up to an hour later
NextRequest ==
    /\ pc \in {"context", "raised"}
    /\ \E d \in {0, HalfHour, 2 * HalfHour} :
          /\ now + d <= Noon15 + MaxHalfHours * HalfHour
          /\ now' = now + d
    /\ pc' = "start"
    /\ analysis' = NotCalled
    /\ returned' = <<>>
    /\ UNCHANGED <<query, world, matches, fetched, session, page_run, cache,
                   dashboard, upload, sent, payload>>

NextPipeline ==
    \/ AnalysisFromCache \/ FetchTrendStep \/ DeriveTrendStep \/ FetchRegionalStep
    \/ DeriveRegionalStep \/ DeriveSeasonalStep \/ BuildContextStep \/ NextRequest

SpecPipeline == InitRepeat /\ [][NextPipeline]_vars

\* the steps add up to the function
StepsMakeTheAnalysis ==
    (pc = "returned" /\ Len(returned) = 2)
        => analysis = get_enhanced_drug_analysis(world, now, query, IntArg(36))

\* C22: within a request every fetch from the remote source is made before
\* any derived metric has been computed, and the context is built after the
\* last derivation.
C22_FetchThenDeriveThenContext ==
    /\ \A i \in 1..Len(returned) : returned[i].remote => returned[i].after = {}
    /\ pc = "context" => DerivedSoFar = DerivedKeys \cap DOMAIN session.current_drug_analysis

(***************************************************************************)
(* SpecCache: get_openprescribing_data behind st.cache_data(ttl=3600)      *)
(* (lines 31-43) while the clock advances, the remote source fails and     *)
(* recovers, and the user presses Clear Cache (lines 393-394).             *)
(***************************************************************************)
\* the requests made: both endpoints for a code the source knows, and one
\* endpoint for a code it does not know
CacheRequests ==
    {<<"spending", AnalysisCode>>, <<"spending_by_org", AnalysisCode>>,
     <<"spending", <<"0","6","0","1","0","2","2","B","0">>>>}

\* the conditions of the remote source
CacheWorlds ==
    {w \in DownWorlds : w.net \in {"unreachable", "bad_json_legacy"}}
    \cup {AnalysisWorld(RecordsBody(TrendKeys, Series(1, ThisMonth - 2, 100, 120, 2)),
                        EmptyListBody)}

DataKey(endpoint, code) == <<"get_openprescribing_data", endpoint, code>>

InitCache ==
    /\ pc = "start"
    /\ query = AnalysisCode
    /\ world \in CacheWorlds
    /\ now = Noon15
    /\ matches = NotCalled
    /\ fetched = NotCalled
    /\ analysis = NotCalled
    /\ session = NoSession
    /\ page_run = NotRun
    /\ cache = NoCache
    /\ returned = <<>>
    /\ dashboard = NotCalled
    /\ upload = NotCalled
    /\ sent = <<>>
    /\ payload = NotCalled

\* one call: what it returned, whether the request left for the remote source
\* and the condition the source was in.  returned keeps, per endpoint and
\* parameters, what the remote source last answered and when, since the
\* cache was last cleared.
EndRequest(key, call) ==
    /\ fetched' = [exc |-> call.outcome.exc, val |-> call.outcome.val, key |-> key,
                   at |-> now, remote |-> ~Fresh(cache, key, now), net |-> world.net]
    /\ cache' = call.cache
    /\ returned' = IF ~Fresh(cache, key, now) /\ ~Raised(call.outcome)
                   THEN (key :> [at |-> now, value |-> call.outcome.val]) @@ returned
                   ELSE returned
    /\ pc' = "get_openprescribing_data"
    /\ UNCHANGED <<query, world, now, matches, analysis, session, page_run,
                   dashboard, upload, sent, payload>>

Request ==
    \E r \in CacheRequests :
        EndRequest(DataKey(r[1], r[2]),
                   Cached(cache, DataKey(r[1], r[2]), now,
                          get_openprescribing_data(world, r[1], r[2])))

\* the remote source fails or recovers
Upstream ==
    /\ world' \in CacheWorlds \ {world}
    /\ UNCHANGED <<pc, query, now, matches, fetched, analysis, session, page_run,
                   cache, returned, dashboard, upload, sent, payload>>

\* lines 393-394: st.cache_data.clear()
PressClearCache ==
    /\ cache' = NoCache
    /\ returned' = <<>>
    /\ UNCHANGED <<pc, query, world, now, matches, fetched, analysis, session,
                   page_run, dashboard, upload, sent, payload>>

NextCache == Request \/ Wait \/ PressClearCache \/ Upstream

SpecCache == InitCache /\ [][NextCache]_vars

\* this step is a call of get_openprescribing_data made with key
Requested(key) == fetched' # fetched /\ fetched'.key = key

\* the call was answered from the store: the stored value, no request, and
\* the store as it was
ServedFromStore(key) ==
    /\ fetched'.exc = "none"
    /\ fetched'.val = cache[key].value
    /\ ~fetched'.remote
    /\ cache' = cache

\* the call went to the remote source and returned what the body returns now
AskedUpstream(key) ==
    /\ fetched'.remote
    /\ [exc |-> fetched'.exc, val |-> fetched'.val]
          = get_openprescribing_data(world, key[2], key[3])

\* C23: a call repeated with the same parameters less than an hour after its
\* entry was stored returns the stored result without a request; an entry
\* older than an hour is never served; entries of other parameters are left
\* alone, and entries leave the store only all at once, by Clear Cache.
C23_MemoizedPerParametersForOneHour ==
    [][/\ \A key \in DOMAIN cache :
             /\ (Requested(key) /\ now < cache[key].at + 3600) => ServedFromStore(key)
             /\ (Requested(key) /\ now > cache[key].at + 3600) => AskedUpstream(key)
             /\ (~Requested(key) /\ cache' # NoCache)
                    => (key \in DOMAIN cache' /\ cache'[key] = cache[key])
       /\ \A r \in CacheRequests :
             (Requested(DataKey(r[1], r[2])) /\ DataKey(r[1], r[2]) \notin DOMAIN cache)
                => AskedUpstream(DataKey(r[1], r[2]))]_vars

\* a call was answered from an entry stored half an hour earlier, while an
\* entry of other parameters is older than an hour
C23_Witness ==
    /\ pc = "get_openprescribing_data"
    /\ ~fetched.remote
    /\ fetched.key \in DOMAIN cache
    /\ fetched.at = cache[fetched.key].at + HalfHour
    /\ \E key \in DOMAIN cache : fetched.at > cache[key].at + 3600

\* C27: a request that failed is stored like one that succeeded: while its
\* entry is younger than the time to live and the cache was not cleared, every
\* repeat with the same endpoint and parameters returns no data and asks the
\* remote source nothing, whatever condition the source is in by then.
C27_FailureIsCached ==
    [][\A key \in DOMAIN returned :
          (/\ Requested(key)
           /\ returned[key].value = NoneBody
           /\ now < returned[key].at + 3600)
             => /\ fetched'.exc = "none"
                /\ fetched'.val = NoneBody
                /\ ~fetched'.remote]_vars

\* the source had recovered and holds records for the code, and the call,
\* made half an hour after the failure, returned None from the store
C27_Witness ==
    /\ pc = "get_openprescribing_data"
    /\ fetched.net = "ok"
    /\ fetched.key = DataKey("spending", AnalysisCode)
    /\ fetched.exc = "none" /\ fetched.val = NoneBody
    /\ ~fetched.remote
    /\ fetched.key \in DOMAIN returned
    /\ fetched.at = returned[fetched.key].at + HalfHour

(***************************************************************************)
(* The trend label, checked under SpecDerive.                              *)
(***************************************************************************)
\* the analysis returned a trend label
Labelled ==
    /\ Derived /\ ~Raised(analysis)
    /\ Has(analysis.val, "trend_data")
    /\ Has(analysis.val.trend_data, "overall_trend")

\* the mean cost of the last six and of the first six periods of the window
LastSixMean == MeanOf(tail(TrendFrame.val.rows, 6), "actual_cost")

FirstSixMean == MeanOf(head(TrendFrame.val.rows, 6), "actual_cost")

\* C24: a trend label is returned only for a series of at least 6 periods;
\* it is "increasing" when the mean of the last 6 costs is more than 10% above
\* the mean of the first 6, "decreasing" when it is more than 10% below, and
\* "stable" otherwise, a difference of exactly 10% included.
C24_TrendLabel ==
    Labelled =>
        /\ Len(TrendFrame.val.rows) >= 6
        /\ analysis.val.trend_data.overall_trend =
              IF RLess(RMul(FirstSixMean, Rat(11, 10)), LastSixMean) THEN "increasing"
              ELSE IF RLess(LastSixMean, RMul(FirstSixMean, Rat(9, 10))) THEN "decreasing"
              ELSE "stable"

(***************************************************************************)
(* The last-resort suggestion step of search_drugs.                        *)
(***************************************************************************)
SimilarCategories ==
    {"Similar to: " \o get_bnf_lookup[i].category : i \in 1..Len(get_bnf_lookup)}

\* the remote probes of the search were all made and none returned data
ProbesFoundNothing ==
    LET api == ApiSearch(world, now, query)
    IN  api.val = <<>> /\ Probe(query) \in Range(matches.calls)

\* the query shares a character with a name of the table
SharesACharacter ==
    \E i \in 1..Len(names_lower) : \E k \in 1..Len(names_lower[i]) :
        IsSubstr(<<names_lower[i][k]>>, Lower(query))

Pressed(state, suggestion) ==
    SetKey(SetKey(state, "current_drug", suggestion), "search_performed", TRUE)

\* the run that follows a press of suggestion, the text box still holding
\* drug_query
RunAfterPress(state, drug_query, suggestion) ==
    SearchBlock(AfterWidgets(Pressed(state, suggestion), drug_query, NoButton),
                world, now)

SearchesTyped(outcome, drug_query) ==
    /\ outcome.state.current_drug = drug_query
    /\ outcome.state.search_performed
    /\ outcome.matches = search_drugs(world, now, drug_query)

\* C26: a run with a non-empty text box sets current_drug to the typed query
\* before the search block, whatever the session held; the run that follows a
\* press of a suggestion button therefore searches the typed query and not
\* the suggestion.
C26_TypedQueryReplacesSuggestion ==
    /\ \A q \in PageQueries :
           AfterWidgets(session, q, NoButton).current_drug = q
    /\ \A s \in SuggestionButtons(query) :
           /\ SearchesTyped(RunAfterPress(session, query, s), query)
           /\ RunAfterPress(session, query, s).state.current_drug # s

\* the page shows suggestion buttons for the typed query while the session
\* holds another drug from a quick search; pressing a suggestion from here
\* changes current_drug back to the typed query
C26_Witness ==
    /\ pc = "page" /\ page_run # NotRun
    /\ SuggestionButtons(query) # {}
    /\ Has(session, "current_drug") /\ session.current_drug # query
    /\ \E s \in SuggestionButtons(query) :
           /\ s # session.current_drug
           /\ RunAfterPress(session, query, s).state.current_drug = query
           /\ RunAfterPress(session, query, s).matches # matches

(***************************************************************************)
(* The Cost Alerts of the High-Cost Drug Monitor.                          *)
(***************************************************************************)
\* the run drew the High-Cost Drug Monitor down to its alerts
AlertsComputed ==
    /\ pc = "High-Cost Drug Monitor"
    /\ dashboard.exc = "none" /\ Has(dashboard.shown, "alerts")

MonitorRows == session.dashboard_data.rows

DrugRows(drug) == SelectSeq(MonitorRows, LAMBDA r : r.drug_name = drug)

NonNegativeCosts == \A i \in 1..Len(MonitorRows) : MonitorRows[i].actual_cost >= 0

\* the cost of the drug in the month before the latest one
MonthBeforeCost(drug) ==
    SumOf(SelectSeq(DrugRows(drug),
                    LAMBDA r : /\ r.date < latest_date(MonitorRows)
                               /\ r.date >= latest_date(MonitorRows) - timedelta_days(31)),
          "actual_cost")

====
